---- MODULE Spec2Model ----
(***************************************************************************)
(* ClawDev agent orchestrator (lib/clawdev/agent.ts) with the parts of the *)
(* analyzer (lib/clawdev/analyzer.ts) and of the configuration             *)
(* (lib/clawdev/config.ts) it depends on.                                  *)
(*                                                                         *)
(* The agent is one process-wide object, agentState, mutated by async      *)
(* phase functions.  Every `await` of a network or oracle call is a        *)
(* suspension point: the code between two awaits is one atomic action,     *)
(* and the invocations in flight (procs) interleave at their awaits.       *)
(***************************************************************************)
EXTENDS Integers, Sequences, FiniteSets, TLC

VARIABLES
    agentState,   \* the singleton `agentState` of agent.ts
    procs,        \* the invocations in flight: slot -> position and locals
    ret,          \* what the call that completed last returned or threw
    started,      \* number of invocations started so far
    clock,        \* logical Date.now(): stamps log entries and idea ids
    budget,       \* number of invocations the run may start in all
    envWallet,    \* process.env.SOLANA_WALLET_PUBLIC_KEY ("" when unset)
    calc          \* input and output of the pure function under study

vars == <<agentState, procs, ret, started, budget, clock, envWallet, calc>>

\* what no step of the agent changes
fixed == <<budget, envWallet, calc>>


\* ------------------------------------------------------------------------
\* Bounds of the model
\* ------------------------------------------------------------------------
MaxProcs == 2       \* invocations in flight at once
MaxOps == 2         \* invocations started in one run of the whole agent
MaxTopCoins == 1    \* coins runAnalysis evaluates in one run
DeployOps == 3      \* invocations started in one run of the deploy pipeline
LogOps == 2         \* invocations started on top of a nearly full log

\* ------------------------------------------------------------------------
\* IEEE-754 double arithmetic, as JavaScript numbers compute it.
\* A non-negative double below 128 is held exactly as an integer count of
\* units of 2^-56, written in three limbs <<x2, x1, x0>> of base 2^20.
\* ------------------------------------------------------------------------
Limb == 2^20

Norm(t) ==
    LET x0 == t[3] % Limb
        y1 == t[2] + (t[3] \div Limb)
        x1 == y1 % Limb
    IN  <<t[1] + (y1 \div Limb), x1, x0>>

BitLen(n) == CHOOSE k \in 0..30 : n < 2^k /\ (k = 0 \/ n >= 2^(k-1))

\* round to nearest, ties to even, to a 53-bit mantissa
Round53(X) ==
    IF X[1] = 0 THEN X
    ELSE LET sh == (2 * 20 + BitLen(X[1])) - 53
         IN  IF sh <= 0 THEN X
             ELSE LET u    == 2^sh
                      rem  == X[3] % u
                      q    == X[3] \div u
                      down == X[3] - rem
                  IN  IF 2 * rem > u \/ (2 * rem = u /\ q % 2 = 1)
                      THEN Norm(<<X[1], X[2], down + u>>)
                      ELSE <<X[1], X[2], down>>

\* n * c for an integer n in 0..100 and a double c
Times(n, c) == Round53(Norm(<<n * c[1], n * c[2], n * c[3]>>))

Plus(X, Y) == Round53(Norm(<<X[1] + Y[1], X[2] + Y[2], X[3] + Y[3]>>))

\* Math.round: the nearest integer, a tie going up
MathRound(X) ==
    LET one == 2^(56 - 2 * 20)
    IN  IF 2 * (X[1] % one) >= one THEN (X[1] \div one) + 1 ELSE X[1] \div one

\* the double nearest to each decimal literal of the source
D040 == <<26214, 419430, 419432>>
D035 == <<22937, 629145, 629144>>
D025 == <<16384, 0, 0>>
D030 == <<19660, 838860, 838860>>
D020 == <<13107, 209715, 209716>>
D015 == <<9830, 419430, 419430>>

\* ------------------------------------------------------------------------
\* analyzer.ts: composite scores
\* ------------------------------------------------------------------------
MinScore == 0
MaxScore == 100
Scores == MinScore..MaxScore

\* generateTokenIdeas: Math.round(viral*0.4 + (100-risk)*0.25 + timing*0.35)
IdeaOverallScore(viral, risk, timing) ==
    MathRound(Plus(Plus(Times(viral, D040), Times(100 - risk, D025)),
                   Times(timing, D035)))

\* evaluateToken: Math.round(viral*0.3 + timing*0.2 + narrative*0.2
\*                           + uniqueness*0.15 + (100-risk)*0.15)
EvalOverallScore(viral, timing, narrative, uniqueness, risk) ==
    MathRound(Plus(Plus(Plus(Plus(Times(viral, D030), Times(timing, D020)),
                             Times(narrative, D020)),
                        Times(uniqueness, D015)),
                   Times(100 - risk, D015)))

\* the same weighted sums in exact arithmetic, rounded half up
ExactIdeaScore(viral, risk, timing) ==
    (40 * viral + 25 * (100 - risk) + 35 * timing + 50) \div 100

ExactEvalScore(viral, timing, narrative, uniqueness, risk) ==
    (30 * viral + 20 * timing + 20 * narrative + 15 * uniqueness
        + 15 * (100 - risk) + 50) \div 100

\* ------------------------------------------------------------------------
\* config.ts: defaults.  maxDeployBudgetSOL is counted in tenths of a SOL
\* (0.5 SOL is 5); the keys the agent never reads are left out.
\* ------------------------------------------------------------------------
Null == [null |-> TRUE]

Wallets == {"", "W"}

DEFAULT_CONFIG ==
    [ maxDeployBudgetSOL  |-> 5,
      scanIntervalMs      |-> 30000,
      minViralScore       |-> 70,
      minOverallScore     |-> 65,
      maxConcurrentTokens |-> 3,
      walletPublicKey     |-> envWallet ]

DEFAULT_STATE ==
    [ isRunning          |-> FALSE,
      currentMode        |-> "scan",
      config             |-> DEFAULT_CONFIG,
      ideas              |-> <<>>,
      deployedTokens     |-> <<>>,
      totalPnL           |-> 0,
      sessionsRun        |-> 0,
      lastScanAt         |-> Null,
      lastMarketSnapshot |-> Null,
      logs               |-> <<>> ]

\* ------------------------------------------------------------------------
\* agent.ts: the log and the synchronous operations.  A "world" w pairs the
\* agent state with the clock, so that a handler's statements compose.
\* ------------------------------------------------------------------------
World == [st |-> agentState, clock |-> clock]

NoData == <<>>

Min(a, b) == IF a <= b THEN a ELSE b

\* logs.slice(0, 499)
LogKeep == 499

\* a log longer than this is never produced
LogCap == LogKeep + 1

Slice(s, n) == SubSeq(s, 1, Min(Len(s), n))

\* createLog with the slice one entry too long
createLogKeepsOneMore(w, level, module, message, data) ==
    LET log == [id |-> w.clock, level |-> level, module |-> module,
                message |-> message, data |-> data]
    IN  [st    |-> [w.st EXCEPT !.logs = <<log>> \o Slice(@, LogKeep + 1)],
         clock |-> w.clock + 1]

\* createLog: the new entry first, then the first 499 of the old log.  The
\* id of a log stands for its id and its timestamp; data holds the id of
\* the idea that the message or the payload names, if any.
createLog(w, level, module, message, data) ==
    LET log == [id |-> w.clock, level |-> level, module |-> module,
                message |-> message, data |-> data]
    IN  [st    |-> [w.st EXCEPT !.logs = <<log>> \o Slice(@, LogKeep)],
         clock |-> w.clock + 1]

\* a phase entry that leaves the label as it is
setModeIgnored(w, mode) == w

setMode(w, mode) == [w EXCEPT !.st.currentMode = mode]

\* getAgentState returning the state without its log
getAgentStateNoLogs(st) == [k \in DOMAIN st |-> IF k = "logs" THEN <<>> ELSE st[k]]

\* { ...agentState }: a new object with every field of the state
getAgentState(st) == [k \in DOMAIN st |-> st[k]]

\* the partial configuration laid over the defaults
MergeConfigOverDefaults(config, partial) ==
    [k \in DOMAIN config \cup DOMAIN partial |->
        IF k \in DOMAIN partial THEN partial[k] ELSE DEFAULT_CONFIG[k]]

\* { ...agentState.config, ...config }
MergeConfig(config, partial) ==
    [k \in DOMAIN config \cup DOMAIN partial |->
        IF k \in DOMAIN partial THEN partial[k] ELSE config[k]]

updateConfig(w, partial) ==
    createLog([w EXCEPT !.st.config = MergeConfig(@, partial)],
              "info", "config", "Agent configuration updated", NoData)

clearLogs(w) == [w EXCEPT !.st.logs = <<>>]

\* resetAgent spreading the current state instead of the defaults
resetAgentKeepsState(w) ==
    createLog([w EXCEPT !.st.logs = <<>>],
              "info", "agent", "Agent state reset to defaults", NoData)

resetAgent(w) ==
    createLog([w EXCEPT !.st = [DEFAULT_STATE EXCEPT !.logs = <<>>]],
              "info", "agent", "Agent state reset to defaults", NoData)

\* ------------------------------------------------------------------------
\* agent.ts: runDeploy.  It contains no await: a call runs to its return
\* in one step.  Nothing inside its try block can throw, so the catch
\* branch (status "rejected") is not an outcome.
\* ------------------------------------------------------------------------
IsActive(t) == t.status = "live" \/ t.status = "monitoring"

ActiveTokens(st) == SelectSeq(st.deployedTokens, IsActive)

\* ideas.find((i) => i.id === ideaId): position of the first match, 0 if none
FindIdea(ideas, ideaId) ==
    IF \E i \in 1..Len(ideas) : ideas[i].id = ideaId
    THEN CHOOSE i \in 1..Len(ideas) :
            /\ ideas[i].id = ideaId
            /\ \A j \in 1..(i-1) : ideas[j].id # ideaId
    ELSE 0

\* the gates without the wallet gate
DeployRefusalNoWallet(st, ideaId) ==
    LET i == FindIdea(st.ideas, ideaId)
    IN  IF i = 0 THEN "Idea not found"
        ELSE IF st.config.maxDeployBudgetSOL <= 0 THEN "Deploy budget is 0"
        ELSE IF Len(ActiveTokens(st)) >= st.config.maxConcurrentTokens
             THEN "Max concurrent tokens reached"
        ELSE "none"

\* the gates with a budget of 0 let through
DeployRefusalZeroBudget(st, ideaId) ==
    LET i == FindIdea(st.ideas, ideaId)
    IN  IF i = 0 THEN "Idea not found"
        ELSE IF st.config.walletPublicKey = "" THEN "No wallet configured"
        ELSE IF st.config.maxDeployBudgetSOL < 0 THEN "Deploy budget is 0"
        ELSE IF Len(ActiveTokens(st)) >= st.config.maxConcurrentTokens
             THEN "Max concurrent tokens reached"
        ELSE "none"

\* the gates with one more: an idea already deploying is refused
DeployRefusalOnce(st, ideaId) ==
    LET i == FindIdea(st.ideas, ideaId)
    IN  IF i = 0 THEN "Idea not found"
        ELSE IF st.config.walletPublicKey = "" THEN "No wallet configured"
        ELSE IF st.config.maxDeployBudgetSOL <= 0 THEN "Deploy budget is 0"
        ELSE IF Len(ActiveTokens(st)) >= st.config.maxConcurrentTokens
             THEN "Max concurrent tokens reached"
        ELSE IF st.ideas[i].status = "deploying" THEN "Already deploying"
        ELSE "none"

\* the gates with the budget tested before the wallet
DeployRefusalBudgetFirst(st, ideaId) ==
    LET i == FindIdea(st.ideas, ideaId)
    IN  IF i = 0 THEN "Idea not found"
        ELSE IF st.config.maxDeployBudgetSOL <= 0 THEN "Deploy budget is 0"
        ELSE IF st.config.walletPublicKey = "" THEN "No wallet configured"
        ELSE IF Len(ActiveTokens(st)) >= st.config.maxConcurrentTokens
             THEN "Max concurrent tokens reached"
        ELSE "none"

\* the four gates of runDeploy in their order; "none" when all are passed
\* a cap gate that compares with > instead of >=
DeployRefusalStrictCap(st, ideaId) ==
    LET i == FindIdea(st.ideas, ideaId)
    IN  IF i = 0 THEN "Idea not found"
        ELSE IF st.config.walletPublicKey = "" THEN "No wallet configured"
        ELSE IF st.config.maxDeployBudgetSOL <= 0 THEN "Deploy budget is 0"
        ELSE IF Len(ActiveTokens(st)) > st.config.maxConcurrentTokens
             THEN "Max concurrent tokens reached"
        ELSE "none"

DeployRefusal(st, ideaId) ==
    LET i == FindIdea(st.ideas, ideaId)
    IN  IF i = 0 THEN "Idea not found"
        ELSE IF st.config.walletPublicKey = "" THEN "No wallet configured"
        ELSE IF st.config.maxDeployBudgetSOL <= 0 THEN "Deploy budget is 0"
        ELSE IF Len(ActiveTokens(st)) >= st.config.maxConcurrentTokens
             THEN "Max concurrent tokens reached"
        ELSE "none"

RefusalLevel(msg) == IF msg = "Max concurrent tokens reached" THEN "warn" ELSE "error"

\* the values a result message interpolates: `Max concurrent tokens
\* (${agentState.config.maxConcurrentTokens}) reached`
MessageNames(st, msg) ==
    IF msg = "Max concurrent tokens reached"
    THEN <<st.config.maxConcurrentTokens>>
    ELSE <<>>

\* the deployment package step, recording the token as deployed
PrepareDeployAppends(w, i) ==
    createLog(createLog([w EXCEPT !.st.ideas[i].status = "deploying",
                                  !.st.deployedTokens =
                                      Append(@, [idea |-> w.st.ideas[i],
                                                 status |-> "deploying"])],
                        "info", "deploy", "ready for deployment",
                        <<w.st.ideas[i].id>>),
              "info", "deploy", "Deployment requires wallet signing", Null)

\* a deployment package step whose guarded block fails
PrepareDeployFails(w, i) ==
    createLog([w EXCEPT !.st.ideas[i].status = "rejected"],
              "error", "deploy", "Deploy failed", NoData)

\* the deployment package step of a deploy that passed every gate
PrepareDeploy(w, i) ==
    createLog(createLog([w EXCEPT !.st.ideas[i].status = "deploying"],
                        "info", "deploy", "ready for deployment",
                        <<w.st.ideas[i].id>>),
              "info", "deploy", "Deployment requires wallet signing", Null)

\* runDeploy marking the idea rejected when a gate refuses it
runDeployRejects(w, ideaId) ==
    LET w1  == setMode(createLog(w, "info", "deploy", "Preparing to deploy idea",
                                 <<ideaId>>),
                       "deploy")
        i   == FindIdea(w1.st.ideas, ideaId)
        msg == DeployRefusal(w1.st, ideaId)
        w2  == IF i = 0 THEN w1 ELSE [w1 EXCEPT !.st.ideas[i].status = "rejected"]
    IN  IF msg # "none"
        THEN [w      |-> createLog(w2, RefusalLevel(msg), "deploy", msg, NoData),
              result |-> [success |-> FALSE, message |-> msg,
                          idea |-> IF i = 0 THEN Null ELSE w2.st.ideas[i]]]
        ELSE LET w3 == PrepareDeploy(w1, i)
             IN  [w      |-> w3,
                  result |-> [success |-> TRUE,
                              message |-> "deployment package ready",
                              idea |-> w3.st.ideas[i]]]

runDeploy(w, ideaId) ==
    LET w1  == setMode(createLog(w, "info", "deploy", "Preparing to deploy idea",
                                 <<ideaId>>),
                       "deploy")
        i   == FindIdea(w1.st.ideas, ideaId)
        msg == DeployRefusal(w1.st, ideaId)
    IN  IF msg # "none"
        THEN [w      |-> createLog(w1, RefusalLevel(msg), "deploy", msg, NoData),
              result |-> [success |-> FALSE, message |-> msg,
                          names |-> MessageNames(w1.st, msg),
                          idea |-> IF i = 0 THEN Null ELSE w1.st.ideas[i]]]
        ELSE LET w2 == PrepareDeploy(w1, i)
             IN  [w      |-> w2,
                  result |-> [success |-> TRUE,
                              message |-> "deployment package ready",
                              names |-> <<ideaId>>,
                              idea |-> w2.st.ideas[i]]]

\* ------------------------------------------------------------------------
\* What the collaborators can answer.  A snapshot build and an oracle call
\* either return or throw; the oracle's ideas carry three sub-scores.
\* ------------------------------------------------------------------------
Sentiments == {"neutral"}

Snapshots == {[sentiment |-> s] : s \in Sentiments}

Actions == {"generate", "deploy", "hold", "exit", "wait"}

\* <<viralScore, riskScore, timingScore>> of the ideas the oracle proposes:
\* one well above both thresholds, one exactly on both default thresholds
\* (viral 70, overall 65), one below the overall threshold only (overall
\* 62), one below the viral threshold only (overall 84)
Strong == <<80, 20, 90>>
Borderline == <<70, 40, 64>>
WeakOverall == <<70, 50, 60>>
WeakViral == <<60, 0, 100>>

\* the answers of the idea oracle; the empty one also stands for no output
Batches ==
    { <<>>,
      <<Strong, Borderline>>,
      <<WeakOverall, Strong>>,
      <<Borderline, WeakViral>> }

\* generateTokenIdeas: output.ideas.map(...), an empty list without output
generateTokenIdeas(output, now) ==
    [k \in 1..Len(output) |->
        [ id           |-> now + k - 1,
          viralScore   |-> output[k][1],
          riskScore    |-> output[k][2],
          timingScore  |-> output[k][3],
          overallScore |-> IdeaOverallScore(output[k][1], output[k][2],
                                            output[k][3]),
          status       |-> "idea" ]]

\* the filter with strict comparisons
QualifiesStrictly(idea, config) ==
    /\ idea.viralScore > config.minViralScore
    /\ idea.overallScore > config.minOverallScore

\* the filter of runGenerate
Qualifies(idea, config) ==
    /\ idea.viralScore >= config.minViralScore
    /\ idea.overallScore >= config.minOverallScore

QualifiedIdeas(ideas, config) ==
    SelectSeq(ideas, LAMBDA idea : Qualifies(idea, config))

RECURSIVE LogGenerated(_, _)
\* for (const idea of qualifiedIdeas) createLog("success", "generate", ...)
LogGenerated(w, ideas) ==
    IF ideas = <<>> THEN w
    ELSE LogGenerated(createLog(w, "success", "generate", "Generated",
                                <<Head(ideas).id>>),
                      Tail(ideas))

\* runGenerate writing over the newest listed idea, as a list read one
\* entry too early would
FinishGenerateDropsHead(w, ideas) ==
    LET qualified == QualifiedIdeas(ideas, w.st.config)
        w1 == [w EXCEPT !.st.ideas = qualified \o (IF @ = <<>> THEN @ ELSE Tail(@))]
        w2 == LogGenerated(w1, qualified)
        w3 == IF Len(qualified) < Len(ideas)
              THEN createLog(w2, "warn", "generate", "ideas filtered out", NoData)
              ELSE w2
    IN  [w |-> w3, result |-> qualified]

\* runGenerate putting the new ideas in place of the listed ones
FinishGenerateReplaces(w, ideas) ==
    LET qualified == QualifiedIdeas(ideas, w.st.config)
        w1 == [w EXCEPT !.st.ideas = qualified]
        w2 == LogGenerated(w1, qualified)
        w3 == IF Len(qualified) < Len(ideas)
              THEN createLog(w2, "warn", "generate", "ideas filtered out", NoData)
              ELSE w2
    IN  [w |-> w3, result |-> qualified]

\* runGenerate from the answer of the oracle to its return
FinishGenerate(w, ideas) ==
    LET qualified == QualifiedIdeas(ideas, w.st.config)
        w1 == [w EXCEPT !.st.ideas = qualified \o @]
        w2 == LogGenerated(w1, qualified)
        w3 == IF Len(qualified) < Len(ideas)
              THEN createLog(w2, "warn", "generate", "ideas filtered out", NoData)
              ELSE w2
    IN  [w |-> w3, result |-> qualified]

\* runFullCycle, case "deploy": the best idea still to deploy, 0 if none
\* a filter that lets an idea already in deployment through
DeployableAgain(idea) == idea.status \in {"idea", "approved", "deploying"}

Deployable(idea) == idea.status = "idea" \/ idea.status = "approved"

TopIdeaFirst(ideas) ==
    LET cand == {i \in 1..Len(ideas) : Deployable(ideas[i])}
    IN  IF cand = {} THEN 0 ELSE CHOOSE i \in cand : \A j \in cand : i <= j

TopIdea(ideas) ==
    LET cand == {i \in 1..Len(ideas) : Deployable(ideas[i])}
    IN  IF cand = {} THEN 0
        ELSE CHOOSE i \in cand :
                \A j \in cand :
                    \/ ideas[i].overallScore > ideas[j].overallScore
                    \/ ideas[i].overallScore = ideas[j].overallScore /\ i <= j

\* ------------------------------------------------------------------------
\* Invocations in flight
\* ------------------------------------------------------------------------
Slots == 1..MaxProcs

Idle == [op |-> "none", pc |-> "idle", cycle |-> FALSE, branch |-> "none",
         snapshot |-> Null, inner |-> Null, left |-> 0, evals |-> 0]

\* ret: the n-th completed call was op(arg) and it returned or threw val;
\* for runGenerate arg is what the oracle produced
NoReturn ==
    [n |-> 0, op |-> "none", arg |-> Null, kind |-> "none", val |-> Null,
     response |-> Null]

\* { ...base, ...result }: a key of result replaces the same key of base
Spread(base, result) ==
    [k \in DOMAIN base \cup DOMAIN result |->
        IF k \in DOMAIN result THEN result[k] ELSE base[k]]

\* route.ts, POST: the JSON answer to a command whose operation returned
\* val or threw it
POST(op, kind, val) ==
    IF kind = "throw" THEN [success |-> FALSE, status |-> 500, error |-> val]
    ELSE LET base == [success |-> TRUE, status |-> 200, command |-> op]
         IN  CASE op \in {"scan", "analyze", "deploy", "monitor"} -> Spread(base, val)
               [] op = "cycle" ->
                    Spread(base, [phase   |-> val.phase,
                                  results |-> [k \in DOMAIN val \ {"phase"} |-> val[k]]])
               [] op = "generate" -> Spread(base, [ideas |-> val])
               [] op = "clear_logs" -> base
               [] OTHER -> Spread(base, [state |-> val])

\* a new invocation takes the first free slot
CanStart(p) ==
    /\ started < budget
    /\ procs[p].pc = "idle"
    /\ \A q \in Slots : q < p => procs[q].pc # "idle"

\* the function running in slot p suspends at an await
Suspend(p, w, pr) ==
    /\ agentState' = w.st
    /\ clock' = w.clock
    /\ procs' = [procs EXCEPT ![p] = pr]
    /\ UNCHANGED <<ret, fixed>>

\* the function running in slot p returns or throws; inside runFullCycle
\* the awaiting cycle resumes with the outcome in a later step
CompleteCall(p, w, op, arg, kind, val) ==
    LET inner == procs[p].cycle /\ op # "cycle"
        r == [n |-> ret.n + 1, op |-> op, arg |-> arg, kind |-> kind, val |-> val,
              response |-> IF inner THEN Null ELSE POST(op, kind, val)]
    IN  /\ agentState' = w.st
        /\ clock' = w.clock
        /\ ret' = r
        /\ procs' = [procs EXCEPT ![p] =
                        IF inner
                        THEN [@ EXCEPT !.pc = "cycle_resume", !.inner = r]
                        ELSE Idle]
        /\ UNCHANGED fixed

Complete(p, w, op, kind, val) == CompleteCall(p, w, op, Null, kind, val)

\* ------------------------------------------------------------------------
\* agent.ts: each phase from its entry to its first await.  runFullCycle
\* calls the phases: a call runs synchronously up to that await.
\* ------------------------------------------------------------------------
EnterScan(p, w, pr) ==
    Suspend(p, setMode(createLog(w, "info", "scan", "Starting market scan...", NoData),
                       "scan"),
            [pr EXCEPT !.pc = "scan_snapshot"])

beginGenerate(w) ==
    setMode(createLog(w, "info", "generate", "Generating token ideas", NoData), "generate")

EnterGenerate(p, w, pr) ==
    LET w1 == beginGenerate(w)
        s  == w1.st.lastMarketSnapshot
    IN  Suspend(p, w1, [pr EXCEPT !.snapshot = s,
                                  !.pc = IF s = Null THEN "gen_snapshot"
                                                     ELSE "gen_oracle"])

\* runMonitor after the snapshot: one position per active token.  The exit
\* advice of a token is the oracle's; pnl is reported as 0.
MonitorPositions(st) ==
    [k \in 1..Len(ActiveTokens(st)) |->
        [symbol |-> ActiveTokens(st)[k].idea.id, pnl |-> 0]]

EnterMonitor(p, w, pr) ==
    LET w1 == setMode(createLog(w, "info", "monitor",
                                "Monitoring active positions...", NoData), "monitor")
    IN  IF w1.st.lastMarketSnapshot = Null
        THEN Suspend(p, w1, [pr EXCEPT !.pc = "mon_snapshot"])
        ELSE Complete(p, w1, "monitor", "return",
                      [positions |-> MonitorPositions(w1.st)])

\* runAnalysis after the snapshot, up to its next await
AnalysisBody(p, w, pr) ==
    IF pr.branch = "narrative"
    THEN Suspend(p, createLog(w, "info", "analyze", "Analyzing narrative", NoData),
                 [pr EXCEPT !.pc = "an_narrative"])
    ELSE Suspend(p, w, [pr EXCEPT !.pc = "an_fetch"])

EnterAnalysis(p, w, pr) ==
    LET w1 == setMode(createLog(w, "info", "analyze", "Starting deep analysis...", NoData),
                      "analyze")
    IN  IF w1.st.lastMarketSnapshot = Null
        THEN Suspend(p, w1, [pr EXCEPT !.pc = "an_snapshot"])
        ELSE AnalysisBody(p, w1, pr)

\* ------------------------------------------------------------------------
\* The synchronous commands
\* ------------------------------------------------------------------------
Call(w, op, arg, val) ==
    /\ agentState' = w.st
    /\ clock' = w.clock
    /\ ret' = [n |-> ret.n + 1, op |-> op, arg |-> arg, kind |-> "return",
               val |-> val, response |-> POST(op, "return", val)]
    /\ started' = started + 1
    /\ UNCHANGED <<procs, fixed>>

GetAgentState ==
    /\ started < budget
    /\ Call(World, "state", Null, getAgentState(agentState))

\* the partial configurations a caller sends
ConfigPatches ==
    { [walletPublicKey |-> "W"],
      [walletPublicKey |-> ""],
      [maxDeployBudgetSOL |-> 0],
      [maxConcurrentTokens |-> 0],
      [maxConcurrentTokens |-> 0 - 1],
      [maxConcurrentTokens |-> 1],
      [minViralScore |-> 0, minOverallScore |-> 0] }

UpdateConfig ==
    /\ started < budget
    /\ \E partial \in ConfigPatches :
          LET w == updateConfig(World, partial)
          IN  Call(w, "config", partial, getAgentState(w.st))

ClearLogs ==
    /\ started < budget
    /\ Call(clearLogs(World), "clear_logs", Null, Null)

\* a reset that cancels the phases in flight
ResetAgentCancels ==
    /\ started < budget
    /\ LET w == resetAgent(World)
       IN  /\ agentState' = w.st
           /\ clock' = w.clock
           /\ ret' = [n |-> ret.n + 1, op |-> "reset", arg |-> Null, kind |-> "return",
                      val |-> getAgentState(w.st),
                      response |-> POST("reset", "return", getAgentState(w.st))]
           /\ started' = started + 1
           /\ procs' = [p \in Slots |-> Idle]
           /\ UNCHANGED fixed

ResetAgent ==
    /\ started < budget
    /\ LET w == resetAgent(World)
       IN  Call(w, "reset", Null, getAgentState(w.st))

IdeaIds(st) == {st.ideas[i].id : i \in 1..Len(st.ideas)}

\* a deploy command: the id of a listed idea, or an id no idea has
RunDeploy ==
    /\ started < budget
    /\ \E ideaId \in IdeaIds(agentState) \cup {0} :
          LET d == runDeploy(World, ideaId)
          IN  Call(d.w, "deploy", ideaId, d.result)

\* a deploy command without ideaId, or a command the route does not know:
\* answered with status 400 before any operation runs
BadRequest ==
    /\ started < budget
    /\ \E error \in {"ideaId is required", "Unknown command"} :
          ret' = [n |-> ret.n + 1, op |-> "none", arg |-> Null, kind |-> "return",
                  val |-> Null,
                  response |-> [success |-> FALSE, status |-> 400, error |-> error]]
    /\ started' = started + 1
    /\ UNCHANGED <<agentState, clock, procs, fixed>>

\* ------------------------------------------------------------------------
\* The asynchronous commands: their start
\* ------------------------------------------------------------------------
StartScan(p) ==
    /\ CanStart(p)
    /\ started' = started + 1
    /\ EnterScan(p, World, [Idle EXCEPT !.op = "scan"])

StartAnalysis(p) ==
    /\ CanStart(p)
    /\ started' = started + 1
    /\ \E b \in {"narrative", "none"} :
          EnterAnalysis(p, World, [Idle EXCEPT !.op = "analyze", !.branch = b])

StartGenerate(p) ==
    /\ CanStart(p)
    /\ started' = started + 1
    /\ EnterGenerate(p, World, [Idle EXCEPT !.op = "generate"])

StartMonitor(p) ==
    /\ CanStart(p)
    /\ started' = started + 1
    /\ EnterMonitor(p, World, [Idle EXCEPT !.op = "monitor"])

\* a cycle that starts without counting the session
StartFullCycleUncounted(p) ==
    /\ CanStart(p)
    /\ started' = started + 1
    /\ LET w == createLog(World, "info", "agent",
                          "=== Starting Full ClawDev Cycle ===", NoData)
       IN  EnterScan(p, w, [Idle EXCEPT !.op = "cycle", !.cycle = TRUE])

\* runFullCycle up to the first await of the runScan it calls
StartFullCycle(p) ==
    /\ CanStart(p)
    /\ started' = started + 1
    /\ LET w  == createLog(World, "info", "agent",
                           "=== Starting Full ClawDev Cycle ===", NoData)
           w1 == [w EXCEPT !.st.sessionsRun = @ + 1]
       IN  EnterScan(p, w1, [Idle EXCEPT !.op = "cycle", !.cycle = TRUE])

\* ------------------------------------------------------------------------
\* runScan after its awaits
\* ------------------------------------------------------------------------
ScanSnapshot(p) ==
    /\ procs[p].pc = "scan_snapshot"
    /\ UNCHANGED started
    /\ \/ \E s \in Snapshots :
            LET w  == [World EXCEPT !.st.lastMarketSnapshot = s,
                                    !.st.lastScanAt = [at |-> clock]]
                w1 == createLog(w, "success", "scan", "Market snapshot captured", NoData)
            IN  Suspend(p, w1, [procs[p] EXCEPT !.pc = "scan_oracle",
                                                !.snapshot = s])
       \/ Complete(p, createLog(World, "error", "scan", "Scan failed", NoData),
                   "scan", "throw", "snapshot")

\* a scan that throws the oracle's error without a log entry
ScanOracleSilent(p) ==
    /\ procs[p].pc = "scan_oracle"
    /\ UNCHANGED started
    /\ \/ \E a \in Actions :
            Complete(p, createLog(World, "ai", "scan", "AI Decision", NoData),
                     "scan", "return",
                     [snapshot |-> procs[p].snapshot, decision |-> [action |-> a]])
       \/ Complete(p, World, "scan", "throw", "oracle")

ScanOracle(p) ==
    /\ procs[p].pc = "scan_oracle"
    /\ UNCHANGED started
    /\ \/ \E a \in Actions :
            Complete(p, createLog(World, "ai", "scan", "AI Decision", NoData),
                     "scan", "return",
                     [snapshot |-> procs[p].snapshot, decision |-> [action |-> a]])
       \/ Complete(p, createLog(World, "error", "scan", "Scan failed", NoData),
                   "scan", "throw", "oracle")

\* ------------------------------------------------------------------------
\* runAnalysis after its awaits
\* ------------------------------------------------------------------------
AnalysisSnapshot(p) ==
    /\ procs[p].pc = "an_snapshot"
    /\ UNCHANGED started
    /\ \/ \E s \in Snapshots :
            AnalysisBody(p, World, [procs[p] EXCEPT !.snapshot = s])
       \/ Complete(p, World, "analyze", "throw", "snapshot")

AnalysisNarrative(p) ==
    /\ procs[p].pc = "an_narrative"
    /\ UNCHANGED started
    /\ \/ Suspend(p, createLog(World, "ai", "analyze", "Narrative analysis", NoData),
                  [procs[p] EXCEPT !.pc = "an_fetch"])
       \/ Complete(p, createLog(World, "error", "analyze", "Analysis failed", NoData),
                   "analyze", "throw", "oracle")

AnalysisFetch(p) ==
    /\ procs[p].pc = "an_fetch"
    /\ UNCHANGED started
    /\ \/ \E n \in 0..MaxTopCoins :
            IF n = 0
            THEN Complete(p, World, "analyze", "return", [tokenEvaluations |-> 0])
            ELSE Suspend(p, World, [procs[p] EXCEPT !.pc = "an_eval", !.left = n])
       \/ Complete(p, createLog(World, "error", "analyze", "Analysis failed", NoData),
                   "analyze", "throw", "listing")

\* one round of the loop over the top coins: the evaluation scores above 70,
\* scores at most 70, or the call throws and the coin is skipped
AnalysisEval(p) ==
    /\ procs[p].pc = "an_eval"
    /\ UNCHANGED started
    /\ \E o \in {"high", "low", "throw"} :
          LET w  == CASE o = "high"  -> createLog(World, "success", "analyze", "Evaluated", NoData)
                      [] o = "low"   -> createLog(World, "info", "analyze", "Evaluated", NoData)
                      [] o = "throw" -> createLog(World, "warn", "analyze",
                                                  "Failed to evaluate", NoData)
              pr == [procs[p] EXCEPT !.left = @ - 1,
                                     !.evals = IF o = "throw" THEN @ ELSE @ + 1]
          IN  IF pr.left = 0
              THEN Complete(p, w, "analyze", "return",
                            [tokenEvaluations |-> pr.evals])
              ELSE Suspend(p, w, pr)

\* ------------------------------------------------------------------------
\* runGenerate after its awaits
\* ------------------------------------------------------------------------
\* a runGenerate that stores the snapshot it built
GenerateSnapshotStores(p) ==
    /\ procs[p].pc = "gen_snapshot"
    /\ UNCHANGED started
    /\ \/ \E s \in Snapshots :
            Suspend(p, [World EXCEPT !.st.lastMarketSnapshot = s],
                    [procs[p] EXCEPT !.pc = "gen_oracle", !.snapshot = s])
       \/ Complete(p, createLog(World, "error", "generate", "Generation failed", NoData),
                   "generate", "throw", "snapshot")

GenerateSnapshot(p) ==
    /\ procs[p].pc = "gen_snapshot"
    /\ UNCHANGED started
    /\ \/ \E s \in Snapshots :
            Suspend(p, World, [procs[p] EXCEPT !.pc = "gen_oracle", !.snapshot = s])
       \/ Complete(p, createLog(World, "error", "generate", "Generation failed", NoData),
                   "generate", "throw", "snapshot")

GenerateOracle(p) ==
    /\ procs[p].pc = "gen_oracle"
    /\ UNCHANGED started
    /\ \/ \E output \in Batches :
            LET ideas == generateTokenIdeas(output, clock)
                g == FinishGenerate([World EXCEPT !.clock = @ + Len(ideas)], ideas)
            IN  CompleteCall(p, g.w, "generate", ideas, "return", g.result)
       \/ Complete(p, createLog(World, "error", "generate", "Generation failed", NoData),
                   "generate", "throw", "oracle")

\* ------------------------------------------------------------------------
\* runMonitor after its await
\* ------------------------------------------------------------------------
MonitorSnapshot(p) ==
    /\ procs[p].pc = "mon_snapshot"
    /\ UNCHANGED started
    /\ \/ \E s \in Snapshots :
            Complete(p, World, "monitor", "return",
                     [positions |-> MonitorPositions(agentState)])
       \/ Complete(p, World, "monitor", "throw", "snapshot")

\* ------------------------------------------------------------------------
\* runFullCycle after each of its awaits
\* ------------------------------------------------------------------------
Resumes(p, op, kind) ==
    /\ procs[p].pc = "cycle_resume"
    /\ procs[p].inner.op = op
    /\ procs[p].inner.kind = kind

\* switch (decision.action)
CycleSwitch(p) ==
    /\ Resumes(p, "scan", "return")
    /\ UNCHANGED started
    /\ LET decision == procs[p].inner.val.decision
           pr == [procs[p] EXCEPT !.inner = Null, !.branch = decision.action]
           i  == TopIdea(agentState.ideas)
       IN  CASE decision.action = "generate" -> EnterGenerate(p, World, pr)
             [] decision.action = "deploy" ->
                    IF i # 0
                    THEN LET d == runDeploy(World, agentState.ideas[i].id)
                         IN  CompleteCall(p, d.w, "deploy", agentState.ideas[i].id,
                                          "return", d.result)
                    ELSE EnterGenerate(p, World, pr)
             [] decision.action \in {"hold", "exit"} -> EnterMonitor(p, World, pr)
             [] OTHER ->
                    Complete(p, createLog(World, "info", "agent",
                                          "Market conditions unfavorable. Waiting...", NoData),
                             "cycle", "return",
                             [phase |-> "wait", decision |-> decision,
                              nextScanIn |-> agentState.config.scanIntervalMs \div 1000])

CycleAfterGenerate(p) ==
    /\ Resumes(p, "generate", "return")
    /\ UNCHANGED started
    /\ LET ideas == procs[p].inner.val
           w == IF procs[p].branch = "generate"
                THEN createLog(World, "success", "agent", "Cycle complete", NoData)
                ELSE World
       IN  Complete(p, w, "cycle", "return", [phase |-> "generate", ideas |-> ideas])

CycleAfterDeploy(p) ==
    /\ Resumes(p, "deploy", "return")
    /\ UNCHANGED started
    /\ Complete(p, World, "cycle", "return",
                [phase |-> "deploy", deployResult |-> procs[p].inner.val])

CycleAfterMonitor(p) ==
    /\ Resumes(p, "monitor", "return")
    /\ UNCHANGED started
    /\ Complete(p, World, "cycle", "return",
                [phase |-> "monitor", positions |-> procs[p].inner.val.positions])

\* a cycle that lets the error through
CycleCatchRethrows(p) ==
    /\ procs[p].pc = "cycle_resume"
    /\ procs[p].inner.kind = "throw"
    /\ UNCHANGED started
    /\ Complete(p, World, "cycle", "throw", procs[p].inner.val)

\* catch (error) of runFullCycle
CycleCatch(p) ==
    /\ procs[p].pc = "cycle_resume"
    /\ procs[p].inner.kind = "throw"
    /\ UNCHANGED started
    /\ Complete(p, createLog(World, "error", "agent", "Cycle failed", NoData),
                "cycle", "return",
                [phase |-> "error", error |-> procs[p].inner.val])

\* ------------------------------------------------------------------------
\* The agent
\* ------------------------------------------------------------------------
Init ==
    /\ envWallet \in Wallets
    /\ agentState = DEFAULT_STATE
    /\ procs = [p \in Slots |-> Idle]
    /\ ret = NoReturn
    /\ started = 0
    /\ budget = MaxOps
    /\ clock = 1
    /\ calc = Null

Next ==
    \/ BadRequest
    \/ GetAgentState
    \/ UpdateConfig
    \/ ClearLogs
    \/ ResetAgent
    \/ RunDeploy
    \/ \E p \in Slots : StartScan(p)
    \/ \E p \in Slots : StartAnalysis(p)
    \/ \E p \in Slots : StartGenerate(p)
    \/ \E p \in Slots : StartMonitor(p)
    \/ \E p \in Slots : StartFullCycle(p)
    \/ \E p \in Slots : ScanSnapshot(p)
    \/ \E p \in Slots : ScanOracle(p)
    \/ \E p \in Slots : AnalysisSnapshot(p)
    \/ \E p \in Slots : AnalysisNarrative(p)
    \/ \E p \in Slots : AnalysisFetch(p)
    \/ \E p \in Slots : AnalysisEval(p)
    \/ \E p \in Slots : GenerateSnapshot(p)
    \/ \E p \in Slots : GenerateOracle(p)
    \/ \E p \in Slots : MonitorSnapshot(p)
    \/ \E p \in Slots : CycleSwitch(p)
    \/ \E p \in Slots : CycleAfterGenerate(p)
    \/ \E p \in Slots : CycleAfterDeploy(p)
    \/ \E p \in Slots : CycleAfterMonitor(p)
    \/ \E p \in Slots : CycleCatch(p)

Spec == Init /\ [][Next]_vars

\* ------------------------------------------------------------------------
\* The deploy pipeline: runDeploy called directly, with the operations that
\* write what it reads (the idea list and the configuration), run for
\* longer.  Spec covers the runDeploy that runFullCycle calls.
\* ------------------------------------------------------------------------
InitDeploy ==
    /\ envWallet \in Wallets
    /\ agentState = DEFAULT_STATE
    /\ procs = [p \in Slots |-> Idle]
    /\ ret = NoReturn
    /\ started = 0
    /\ budget = DeployOps
    /\ clock = 1
    /\ calc = Null

NextDeploy ==
    \/ UpdateConfig
    \/ ResetAgent
    \/ RunDeploy
    \/ \E p \in Slots : StartGenerate(p)
    \/ \E p \in Slots : GenerateSnapshot(p)
    \/ \E p \in Slots : GenerateOracle(p)

SpecDeploy == InitDeploy /\ [][NextDeploy]_vars

\* ------------------------------------------------------------------------
\* The agent with a log two entries short of its cap: the state after one
\* runGenerate and a long series of updateConfig calls.
\* ------------------------------------------------------------------------
AfterGenerate ==
    LET w     == beginGenerate([st |-> DEFAULT_STATE, clock |-> 1])
        ideas == generateTokenIdeas(<<Strong, Borderline>>, w.clock)
    IN  FinishGenerate([w EXCEPT !.clock = @ + Len(ideas)], ideas).w

LogFill == (LogKeep - 1) - Len(AfterGenerate.st.logs)

\* the world after n calls of updateConfig({walletPublicKey: envWallet}),
\* none of which overflows the log
AfterUpdates(w, n) ==
    [st    |-> [w.st EXCEPT !.logs =
                   [k \in 1..n |-> [id |-> w.clock + n - k, level |-> "info",
                                    module |-> "config",
                                    message |-> "Agent configuration updated",
                                    data |-> NoData]]
                   \o @],
     clock |-> w.clock + n]

NearlyFull == AfterUpdates(AfterGenerate, LogFill)

InitLog ==
    /\ envWallet = "W"
    /\ agentState = NearlyFull.st
    /\ clock = NearlyFull.clock
    /\ procs = [p \in Slots |-> Idle]
    /\ ret = NoReturn
    /\ started = 1 + LogFill
    /\ budget = started + LogOps
    /\ calc = Null

SpecLog == InitLog /\ [][Next]_vars

\* ------------------------------------------------------------------------
\* The agent holding two ideas, the better one listed second: the state
\* after updateConfig({minViralScore: 0, minOverallScore: 0}) and one
\* runGenerate, with a wallet key in the environment.
\* ------------------------------------------------------------------------
CycleOps == 2

TwoIdeas ==
    LET w0    == updateConfig([st |-> [DEFAULT_STATE EXCEPT
                                          !.config.walletPublicKey = "W"],
                               clock |-> 1],
                              [minViralScore |-> 0, minOverallScore |-> 0])
        w     == beginGenerate(w0)
        ideas == generateTokenIdeas(<<Borderline, WeakViral>>, w.clock)
    IN  FinishGenerate([w EXCEPT !.clock = @ + Len(ideas)], ideas).w

InitCycle ==
    /\ envWallet = "W"
    /\ agentState = TwoIdeas.st
    /\ clock = TwoIdeas.clock
    /\ procs = [p \in Slots |-> Idle]
    /\ ret = NoReturn
    /\ started = 2
    /\ budget = started + CycleOps
    /\ calc = Null

SpecCycle == InitCycle /\ [][Next]_vars

\* ========================================================================
\* Properties
\* ========================================================================

\* the step completes a call of op
Returned(op) == ret'.n = ret.n + 1 /\ ret'.op = op

NewestFirst(logs) == \A i \in 1..(Len(logs) - 1) : logs[i].id > logs[i + 1].id

\* the entries of logs stamped at or after time t
Fresh(logs, t) == {i \in 1..Len(logs) : logs[i].id >= t}

\* A step either empties or replaces the log (clearLogs, resetAgent) or puts
\* its n new entries in front of the first LogCap - n old ones, in order.
LogStep ==
    LET old == agentState.logs
        new == agentState'.logs
        n   == Cardinality(Fresh(new, clock))
    IN  \/ Returned("clear_logs") /\ new = <<>>
        \/ Returned("reset") /\ Len(new) = 1
        \/ /\ Fresh(new, clock) = 1..n
           /\ SubSeq(new, n + 1, Len(new)) = Slice(old, LogCap - n)

\* C1: the log never holds more than 500 entries and is ordered newest
\* first; a step that appends to a full log keeps it at 500 entries, the new
\* entries first and the oldest ones dropped.
C1_LogCapped ==
    /\ [](Len(agentState.logs) <= LogCap /\ NewestFirst(agentState.logs))
    /\ [][LogStep]_vars

\* C1 witness: the log is full and the oldest entry of the initial log (the
\* entry stamped 1) has been dropped
C1_Witness ==
    /\ Len(agentState.logs) = LogCap
    /\ agentState.logs[LogCap].id > 1

\* C2 as claimed: with an empty wallet key every runDeploy, whatever the id,
\* fails with "No wallet configured".
C2_AnyIdNoWallet ==
    [][(Returned("deploy") /\ agentState.config.walletPublicKey = "")
          => (~ret'.val.success /\ ret'.val.message = "No wallet configured")]_vars

\* C2 amended: with an empty wallet key runDeploy fails, with "No wallet
\* configured" for the id of a listed idea and with "Idea not found" for an
\* id no listed idea has.
C2_NoWallet ==
    [][(Returned("deploy") /\ agentState.config.walletPublicKey = "")
          => /\ ~ret'.val.success
             /\ ret'.val.message =
                  IF FindIdea(agentState.ideas, ret'.arg) = 0
                  THEN "Idea not found" ELSE "No wallet configured"]_vars

C2_Witness ==
    /\ ret.op = "deploy"
    /\ ret.val.message = "No wallet configured"
    /\ agentState.config.walletPublicKey = ""

Refusals == {"Idea not found", "No wallet configured", "Deploy budget is 0",
             "Max concurrent tokens reached"}

\* C3: a refused runDeploy returns {success: false, message} and changes
\* nothing of the agent state but currentMode and the log.
C3_RefusalFrame ==
    [][(Returned("deploy") /\ ~ret'.val.success)
          => /\ ret'.kind = "return"
             /\ ret'.val.message \in Refusals
             /\ agentState'.currentMode = "deploy"
             /\ agentState'.logs # agentState.logs
             /\ [agentState' EXCEPT !.currentMode = agentState.currentMode,
                                    !.logs = agentState.logs] = agentState]_vars

\* C3 witness: a deploy refused by the last gate, the concurrency cap
C3_Witness ==
    /\ ret.op = "deploy"
    /\ ~ret.val.success
    /\ ret.val.message = "Max concurrent tokens reached"

GatesPassed(st, ideaId) ==
    /\ FindIdea(st.ideas, ideaId) # 0
    /\ st.config.walletPublicKey # ""
    /\ st.config.maxDeployBudgetSOL > 0
    /\ Len(ActiveTokens(st)) < st.config.maxConcurrentTokens

\* C4: a runDeploy that returns success: true was called in a state where
\* the idea is listed, the wallet key is set, the budget is positive and
\* fewer than maxConcurrentTokens tokens are live or monitoring.
C4_SuccessGated ==
    [][(Returned("deploy") /\ ret'.val.success)
          => GatesPassed(agentState, ret'.arg)]_vars

\* C4 witness: a deploy succeeded after the configuration was changed
C4_Witness ==
    /\ ret.op = "deploy"
    /\ ret.val.success
    /\ agentState.config # DEFAULT_CONFIG

\* C5: a runDeploy that passes the gates sets the status of the idea it
\* looked up to "deploying", returns it with success: true and leaves
\* deployedTokens alone; deployedTokens is empty in every reachable state.
C5_NoDeployedToken ==
    /\ [](agentState.deployedTokens = <<>>)
    /\ [][(Returned("deploy") /\ ret'.val.success)
            => LET i == FindIdea(agentState.ideas, ret'.arg)
               IN  /\ agentState'.ideas =
                        [agentState.ideas EXCEPT ![i].status = "deploying"]
                   /\ ret'.val.idea = agentState'.ideas[i]
                   /\ agentState'.deployedTokens = agentState.deployedTokens]_vars

\* C5 witness: a deploy has succeeded and its idea is listed as deploying
C5_Witness ==
    /\ ret.op = "deploy"
    /\ ret.val.success
    /\ \E i \in 1..Len(agentState.ideas) :
          /\ agentState.ideas[i].id = ret.arg
          /\ agentState.ideas[i].status = "deploying"

\* C6: runDeploy does not look at the status of the idea: called for an
\* idea that an earlier call already moved to "deploying", with the gates
\* passed, it returns success: true again.
C6_DeploysAgain ==
    [][(/\ Returned("deploy")
        /\ GatesPassed(agentState, ret'.arg)
        /\ agentState.ideas[FindIdea(agentState.ideas, ret'.arg)].status
              = "deploying")
          => ret'.val.success]_vars

\* C6 witness: the log holds two "ready for deployment" entries of one idea
C6_Witness ==
    \E i, j \in 1..Len(agentState.logs) :
        /\ i < j
        /\ agentState.logs[i].message = "ready for deployment"
        /\ agentState.logs[j].message = "ready for deployment"
        /\ agentState.logs[i].data = agentState.logs[j].data

\* C7: getAgentState is a pure read: it returns the agent state as it is,
\* changes no field of it, appends no log entry and moves no invocation; a
\* call made while the previous payload still equals the state returns an
\* equal payload.
C7_PureRead ==
    [][Returned("state")
          => /\ agentState' = agentState
             /\ clock' = clock
             /\ procs' = procs
             /\ ret'.val = agentState
             /\ (ret.op = "state" /\ ret.val = agentState => ret'.val = ret.val)]_vars

\* C7 witness: a read of a state that holds ideas and a log
C7_Witness ==
    /\ ret.op = "state"
    /\ ret.val.ideas # <<>>
    /\ ret.val.logs # <<>>
    /\ ret.val = agentState

ResetAnnouncement(log) ==
    /\ log.level = "info"
    /\ log.module = "agent"
    /\ log.message = "Agent state reset to defaults"

\* C8: resetAgent returns, and leaves as the agent state, the defaults with
\* a log of exactly one entry, the reset announcement.
C8_ResetToDefaults ==
    [][Returned("reset")
          => /\ agentState' = ret'.val
             /\ Len(ret'.val.logs) = 1
             /\ ResetAnnouncement(ret'.val.logs[1])
             /\ [ret'.val EXCEPT !.logs = <<>>] = DEFAULT_STATE
             /\ ret'.val.isRunning = FALSE
             /\ ret'.val.currentMode = "scan"
             /\ ret'.val.ideas = <<>>
             /\ ret'.val.deployedTokens = <<>>
             /\ ret'.val.sessionsRun = 0
             /\ ret'.val.lastScanAt = Null
             /\ ret'.val.lastMarketSnapshot = Null]_vars

\* C8 witness: a reset as the second call, after a call that stamped at
\* least two log entries or ideas
C8_Witness ==
    /\ ret.op = "reset"
    /\ ret.n = 2
    /\ clock > 3

MeetsThresholds(idea, config) ==
    ~(idea.viralScore < config.minViralScore)
        /\ ~(idea.overallScore < config.minOverallScore)

\* C9: runGenerate returns the oracle's ideas that meet both configured
\* thresholds, in the oracle's order, and puts exactly them in front of the
\* previous idea list.
C9_GenerateFilters ==
    [][(Returned("generate") /\ ret'.kind = "return")
          => LET produced == ret'.arg
                 kept == {k \in 1..Len(produced) :
                             MeetsThresholds(produced[k], agentState.config)}
             IN  /\ Len(ret'.val) = Cardinality(kept)
                 /\ ret'.val = SelectSeq(produced,
                        LAMBDA x : MeetsThresholds(x, agentState.config))
                 /\ agentState'.ideas = ret'.val \o agentState.ideas
                 /\ \A k \in 1..Len(produced) :
                        k \notin kept =>
                            \A i \in 1..Len(agentState'.ideas) :
                                agentState'.ideas[i].id # produced[k].id]_vars

\* C9 witness: a runGenerate kept one of two ideas, the kept one exactly on
\* both thresholds, and put it in front of ideas listed before
C9_Witness ==
    /\ ret.op = "generate"
    /\ ret.kind = "return"
    /\ Len(ret.arg) = 2
    /\ Len(ret.val) = 1
    /\ ret.val[1].viralScore = agentState.config.minViralScore
    /\ ret.val[1].overallScore = agentState.config.minOverallScore
    /\ Len(agentState.ideas) > 1

\* ------------------------------------------------------------------------
\* generateTokenIdeas on one idea, over the sub-scores the schema admits
\* ------------------------------------------------------------------------
ViralSamples == {0, 36, 80, 100}

InitScore ==
    /\ envWallet = ""
    /\ agentState = DEFAULT_STATE
    /\ procs = [p \in Slots |-> Idle]
    /\ ret = NoReturn
    /\ started = 0
    /\ budget = 0
    /\ clock = 1
    /\ calc \in [fn : {"input"}, in : ViralSamples \X Scores \X Scores]

ScoreIdea ==
    /\ calc.fn = "input"
    /\ calc' = [fn  |-> "generateTokenIdeas",
                in  |-> calc.in,
                out |-> generateTokenIdeas(<<calc.in>>, clock)[1]]
    /\ UNCHANGED <<agentState, procs, ret, started, budget, clock, envWallet>>

NextScore == ScoreIdea

SpecScore == InitScore /\ [][NextScore]_vars

\* C10: the overallScore of an idea is round(0.40*viral + 0.25*(100 - risk)
\* + 0.35*timing), a half rounding up, and lies in 0..100.
C10_IdeaOverallScore ==
    calc.fn = "generateTokenIdeas"
        => /\ calc.out.overallScore =
                ExactIdeaScore(calc.in[1], calc.in[2], calc.in[3])
           /\ calc.out.overallScore \in Scores

\* ------------------------------------------------------------------------
\* analyzer.ts: the advisory oracle.  Each function awaits generateText
\* once, outside any try block: the call resolves with a structured
\* output, resolves without one, or rejects, and a rejection rejects the
\* function that awaits it.
\* ------------------------------------------------------------------------
LLMOutcomes(outputs) ==
    {[kind |-> "output", output |-> <<o>>] : o \in outputs}
        \cup {[kind |-> "absent", output |-> <<>>],
              [kind |-> "throw", output |-> <<>>]}

Resolve(v) == [kind |-> "return", val |-> v]

Reject(e) == [kind |-> "throw", val |-> e]

\* analyzeMarketConditions after its await
analyzeMarketConditions(llm) ==
    CASE llm.kind = "throw"  -> Reject("generateText")
      [] llm.kind = "absent" ->
            Resolve([action |-> "wait", confidence |-> 0,
                     reasoning |-> "Failed to analyze market conditions"])
      [] OTHER ->
            Resolve([action |-> llm.output[1].action,
                     confidence |-> llm.output[1].confidence,
                     reasoning |-> "oracle"])

\* analyzeNarrative after its await
analyzeNarrative(llm) ==
    CASE llm.kind = "throw"  -> Reject("generateText")
      [] llm.kind = "absent" ->
            Resolve([strength |-> 0, momentum |-> "dead", saturation |-> 100,
                     recommendation |-> "avoid", reasoning |-> "Analysis failed"])
      [] OTHER ->
            Resolve([strength |-> llm.output[1].strength,
                     momentum |-> llm.output[1].momentum,
                     saturation |-> llm.output[1].saturation,
                     recommendation |-> llm.output[1].recommendation,
                     reasoning |-> "oracle"])

\* evaluateToken after its await; the sub-scores are
\* <<viralPotential, marketTiming, narrativeStrength, uniqueness,
\*   riskAssessment>>
evaluateToken(llm) ==
    CASE llm.kind = "throw"  -> Reject("generateText")
      [] llm.kind = "absent" ->
            Resolve([viralPotential |-> 0, marketTiming |-> 0,
                     narrativeStrength |-> 0, uniqueness |-> 0,
                     riskAssessment |-> 100, overallScore |-> 0,
                     recommendation |-> "avoid",
                     reasoning |-> "Evaluation failed"])
      [] OTHER ->
            LET o == llm.output[1]
            IN  Resolve([viralPotential |-> o.scores[1],
                         marketTiming |-> o.scores[2],
                         narrativeStrength |-> o.scores[3],
                         uniqueness |-> o.scores[4],
                         riskAssessment |-> o.scores[5],
                         overallScore |-> EvalOverallScore(o.scores[1], o.scores[2],
                                              o.scores[3], o.scores[4], o.scores[5]),
                         recommendation |-> o.recommendation,
                         reasoning |-> "oracle"])

\* generateTokenIdeas with its await: if (!output?.ideas) return []
generateTokenIdeasCall(llm, now) ==
    CASE llm.kind = "throw"  -> Reject("generateText")
      [] llm.kind = "absent" -> Resolve(<<>>)
      [] OTHER -> Resolve(generateTokenIdeas(llm.output[1], now))

\* adviseExitStrategy after its await
adviseExitStrategy(llm, pnlPercent) ==
    CASE llm.kind = "throw"  -> Reject("generateText")
      [] llm.kind = "absent" ->
            Resolve([shouldExit |-> pnlPercent > 200, exitPercentage |-> 100,
                     reasoning |-> "Defaulting to exit on high profit",
                     priceTarget |-> Null])
      [] OTHER -> Resolve(llm.output[1])

\* the structured outputs the schemas admit, sampled
DecisionOutputs == [action : Actions, confidence : {0, 100}]

NarrativeOutputs ==
    [strength : {0, 100}, momentum : {"rising", "dead"}, saturation : {0, 100},
     recommendation : {"launch", "wait", "avoid"}]

UniquenessSamples == {0, 1, 50, 100}

EvaluationOutputs ==
    [scores : {0, 100} \X {0, 100} \X {0, 100} \X UniquenessSamples \X Scores,
     recommendation : {"strong_buy", "avoid"}]

ExitOutputs ==
    [shouldExit : BOOLEAN, exitPercentage : {0, 100}, reasoning : {"oracle"},
     priceTarget : {Null}]

PnlSamples == {0, 200, 201}

OracleCalls(name, outputs, pnls) ==
    [oracle : {name}, llm : LLMOutcomes(outputs), pnl : pnls]

InitOracle ==
    /\ envWallet = ""
    /\ agentState = DEFAULT_STATE
    /\ procs = [p \in Slots |-> Idle]
    /\ ret = NoReturn
    /\ started = 0
    /\ budget = 0
    /\ clock = 1
    /\ \E in \in OracleCalls("analyzeMarketConditions", DecisionOutputs, {0})
                \cup OracleCalls("analyzeNarrative", NarrativeOutputs, {0})
                \cup OracleCalls("evaluateToken", EvaluationOutputs, {0})
                \cup OracleCalls("generateTokenIdeas", Batches, {0})
                \cup OracleCalls("adviseExitStrategy", ExitOutputs, PnlSamples) :
          calc = [fn |-> "input", in |-> in]

OracleReturns(name, result) ==
    /\ calc' = [fn |-> name, in |-> calc.in, out |-> result]
    /\ UNCHANGED <<agentState, procs, ret, started, budget, clock, envWallet>>

AnalyzeMarketConditions ==
    /\ calc.fn = "input"
    /\ calc.in.oracle = "analyzeMarketConditions"
    /\ OracleReturns("analyzeMarketConditions",
                     analyzeMarketConditions(calc.in.llm))

AnalyzeNarrative ==
    /\ calc.fn = "input"
    /\ calc.in.oracle = "analyzeNarrative"
    /\ OracleReturns("analyzeNarrative", analyzeNarrative(calc.in.llm))

EvaluateToken ==
    /\ calc.fn = "input"
    /\ calc.in.oracle = "evaluateToken"
    /\ OracleReturns("evaluateToken", evaluateToken(calc.in.llm))

GenerateTokenIdeas ==
    /\ calc.fn = "input"
    /\ calc.in.oracle = "generateTokenIdeas"
    /\ OracleReturns("generateTokenIdeas",
                     generateTokenIdeasCall(calc.in.llm, clock))

AdviseExitStrategy ==
    /\ calc.fn = "input"
    /\ calc.in.oracle = "adviseExitStrategy"
    /\ OracleReturns("adviseExitStrategy",
                     adviseExitStrategy(calc.in.llm, calc.in.pnl))

NextOracle ==
    \/ AnalyzeMarketConditions
    \/ AnalyzeNarrative
    \/ EvaluateToken
    \/ GenerateTokenIdeas
    \/ AdviseExitStrategy

SpecOracle == InitOracle /\ [][NextOracle]_vars

\* C11: with structured sub-scores in 0..100 the overallScore of
\* evaluateToken is round(0.30*viral + 0.20*timing + 0.20*narrative
\* + 0.15*uniqueness + 0.15*(100 - risk)) and lies in 0..100; without a
\* structured output the result is all scores 0, risk 100, overall 0,
\* recommendation avoid.
C11_EvalOverallScore ==
    calc.fn = "evaluateToken" =>
        /\ calc.in.llm.kind = "output" =>
              LET s == calc.in.llm.output[1].scores
              IN  /\ calc.out.kind = "return"
                  /\ calc.out.val.overallScore =
                        ExactEvalScore(s[1], s[2], s[3], s[4], s[5])
                  /\ calc.out.val.overallScore \in Scores
        /\ calc.in.llm.kind = "absent" =>
              /\ calc.out.kind = "return"
              /\ calc.out.val.viralPotential = 0
              /\ calc.out.val.marketTiming = 0
              /\ calc.out.val.narrativeStrength = 0
              /\ calc.out.val.uniqueness = 0
              /\ calc.out.val.riskAssessment = 100
              /\ calc.out.val.overallScore = 0
              /\ calc.out.val.recommendation = "avoid"

\* ------------------------------------------------------------------------
\* pump-fun.ts: buildMarketSnapshot, from the coins it fetched to the
\* sentiment.  A market cap is a whole number of dollars.
\* ------------------------------------------------------------------------
MaxCoins == 11

TopGainersKeep == 10

ExtremeGreedAbove == 100000
GreedAbove == 50000
NeutralAbove == 10000
FearAbove == 5000

CapSamples ==
    {0, 5000, 5001, 10000, 10001, 50000, 50001, 100000, 100001, 150000}

RECURSIVE Sum(_)
\* reduce((sum, t) => sum + t, 0)
Sum(s) == IF s = <<>> THEN 0 ELSE Head(s) + Sum(Tail(s))

RECURSIVE InsertDesc(_, _)
InsertDesc(x, s) ==
    IF s = <<>> THEN <<x>>
    ELSE IF x > Head(s) THEN <<x>> \o s
         ELSE <<Head(s)>> \o InsertDesc(x, Tail(s))

RECURSIVE SortDesc(_)
\* sort((a, b) => b - a)
SortDesc(s) == IF s = <<>> THEN <<>> ELSE InsertDesc(Head(s), SortDesc(Tail(s)))

\* the market caps of topGainers: filter(cap > 0), sort descending,
\* slice(0, 10)
TopGainers(latestCoins) ==
    Slice(SortDesc(SelectSeq(latestCoins, LAMBDA c : c > 0)), TopGainersKeep)

\* avgMcap > t, for avgMcap = sum / (length || 1).  The quotient of two
\* whole numbers exceeds the whole number t exactly when sum > t * length,
\* in doubles as in exact arithmetic.
AvgAbove(caps, t) ==
    Sum(caps) > t * (IF Len(caps) = 0 THEN 1 ELSE Len(caps))

\* the cascade with inclusive comparisons
SentimentOfInclusive(caps) ==
    LET AtLeast(t) == Sum(caps) >= t * (IF Len(caps) = 0 THEN 1 ELSE Len(caps))
    IN  IF AtLeast(ExtremeGreedAbove) THEN "extreme_greed"
        ELSE IF AtLeast(GreedAbove) THEN "greed"
        ELSE IF AtLeast(NeutralAbove) THEN "neutral"
        ELSE IF AtLeast(FearAbove) THEN "fear"
        ELSE "extreme_fear"

\* if (avgMcap > 100000) ... else if ... else sentiment = "extreme_fear"
SentimentOf(caps) ==
    IF AvgAbove(caps, ExtremeGreedAbove) THEN "extreme_greed"
    ELSE IF AvgAbove(caps, GreedAbove) THEN "greed"
    ELSE IF AvgAbove(caps, NeutralAbove) THEN "neutral"
    ELSE IF AvgAbove(caps, FearAbove) THEN "fear"
    ELSE "extreme_fear"

\* the snapshot, as far as the sentiment depends on it
buildMarketSnapshot(latestCoins) ==
    LET topGainers == TopGainers(latestCoins)
    IN  [topGainers |-> topGainers, sentiment |-> SentimentOf(topGainers)]

\* the listings fetched: k coins of one market cap and m of another
Copies(x, n) == [i \in 1..n |-> x]

CoinLists ==
    {Copies(a, k) \o Copies(b, m) :
        a \in CapSamples, b \in CapSamples, k \in 0..(MaxCoins - 1), m \in 0..1}
        \cup {Copies(a, k) \o Copies(b, k) \o Copies(c, m) :
                a \in CapSamples, b \in CapSamples, c \in {0, 5000},
                k \in 1..((MaxCoins - 1) \div 2), m \in 0..1}

\* ------------------------------------------------------------------------
\* pump-fun.ts: analyzeTradeFlow.  sol_amount is the amount of SOL a trade
\* moved, a whole number of units, zero or more.  A quotient is kept as the
\* fraction num / den of the two numbers the code divides.
\* ------------------------------------------------------------------------
MaxTrades == 3

AmountSamples == {0, 1, 30}

Users == {"a", "b"}

Trades == [is_buy : BOOLEAN, sol_amount : AmountSamples, user : Users]

RECURSIVE TradeBatches(_)
TradeBatches(n) ==
    IF n = 0 THEN {<<>>}
    ELSE LET shorter == TradeBatches(n - 1)
         IN  shorter \cup {Append(b, t) : b \in {x \in shorter : Len(x) = n - 1},
                                          t \in Trades}

Ratio(n, d) == [num |-> n, den |-> d]

Amounts(trades) == [i \in 1..Len(trades) |-> trades[i].sol_amount]

\* Math.max(...allAmounts, 0)
MaxOf(amounts) ==
    IF amounts = <<>> THEN 0
    ELSE CHOOSE x \in {amounts[i] : i \in 1..Len(amounts)} \cup {0} :
            \A i \in 1..Len(amounts) : x >= amounts[i] /\ x >= 0

\* the length itself
OrOneIdentity(n) == n

\* length || 1
OrOne(n) == IF n = 0 THEN 1 ELSE n

\* every trade counted as a sell
analyzeTradeFlowAllSells(trades) ==
    LET sellVolume == Sum(Amounts(trades))
    IN  [ totalBuys       |-> 0,
          totalSells      |-> Len(trades),
          buyVolume       |-> 0,
          sellVolume      |-> sellVolume,
          netFlow         |-> 0 - sellVolume,
          uniqueBuyers    |-> 0,
          uniqueSellers   |-> Cardinality({trades[i].user : i \in 1..Len(trades)}),
          avgBuySize      |-> Ratio(0, 1),
          avgSellSize     |-> Ratio(sellVolume, OrOne(Len(trades))),
          buyPressure     |-> Ratio(0, 1),
          isWhaleActivity |-> FALSE,
          largestTrade    |-> MaxOf(Amounts(trades)) ]

\* largestTrade > avgTrade * 10 is decided as largest * length > sum * 10:
\* the two agree away from equality, and equality with a positive amount
\* needs ten trades or more
analyzeTradeFlow(trades) ==
    LET buys         == SelectSeq(trades, LAMBDA t : t.is_buy)
        sells        == SelectSeq(trades, LAMBDA t : ~t.is_buy)
        buyVolume    == Sum(Amounts(buys))
        sellVolume   == Sum(Amounts(sells))
        allAmounts   == Amounts(trades)
        largestTrade == MaxOf(allAmounts)
    IN  [ totalBuys       |-> Len(buys),
          totalSells      |-> Len(sells),
          buyVolume       |-> buyVolume,
          sellVolume      |-> sellVolume,
          netFlow         |-> buyVolume - sellVolume,
          uniqueBuyers    |-> Cardinality({buys[i].user : i \in 1..Len(buys)}),
          uniqueSellers   |-> Cardinality({sells[i].user : i \in 1..Len(sells)}),
          avgBuySize      |-> Ratio(buyVolume, OrOne(Len(buys))),
          avgSellSize     |-> Ratio(sellVolume, OrOne(Len(sells))),
          buyPressure     |-> IF Len(buys) + Len(sells) > 0
                              THEN Ratio(Len(buys) * 100, Len(buys) + Len(sells))
                              ELSE Ratio(50, 1),
          isWhaleActivity |-> largestTrade * OrOne(Len(allAmounts))
                                  > Sum(allAmounts) * 10,
          largestTrade    |-> largestTrade ]

\* ------------------------------------------------------------------------
\* The two functions of pump-fun.ts on the data they are given
\* ------------------------------------------------------------------------
InitPumpFun ==
    /\ envWallet = ""
    /\ agentState = DEFAULT_STATE
    /\ procs = [p \in Slots |-> Idle]
    /\ ret = NoReturn
    /\ started = 0
    /\ budget = 0
    /\ clock = 1
    /\ \/ \E coins \in CoinLists :
            calc = [fn |-> "input", of |-> "buildMarketSnapshot", in |-> coins]
       \/ \E trades \in TradeBatches(MaxTrades) :
            calc = [fn |-> "input", of |-> "analyzeTradeFlow", in |-> trades]

BuildMarketSnapshot ==
    /\ calc.fn = "input"
    /\ calc.of = "buildMarketSnapshot"
    /\ calc' = [fn |-> "buildMarketSnapshot", in |-> calc.in,
                out |-> buildMarketSnapshot(calc.in)]
    /\ UNCHANGED <<agentState, procs, ret, started, budget, clock, envWallet>>

AnalyzeTradeFlow ==
    /\ calc.fn = "input"
    /\ calc.of = "analyzeTradeFlow"
    /\ calc' = [fn |-> "analyzeTradeFlow", in |-> calc.in,
                out |-> analyzeTradeFlow(calc.in)]
    /\ UNCHANGED <<agentState, procs, ret, started, budget, clock, envWallet>>

NextPumpFun ==
    \/ BuildMarketSnapshot
    \/ AnalyzeTradeFlow

SpecPumpFun == InitPumpFun /\ [][NextPumpFun]_vars

\* C12: the sentiment follows the mean market cap of topGainers by a strict
\* greater-than cascade: above 100000 extreme_greed, else above 50000 greed,
\* else above 10000 neutral, else above 5000 fear, else extreme_fear; a mean
\* of exactly 100001 is extreme_greed, of exactly 100000 greed, and an empty
\* topGainers list is extreme_fear.
C12_SentimentCascade ==
    calc.fn = "buildMarketSnapshot" =>
        LET caps == calc.out.topGainers
            n    == Len(caps)
            sum  == Sum(caps)
            s    == calc.out.sentiment
        IN  /\ n = 0 => s = "extreme_fear"
            /\ n > 0 =>
                /\ (s = "extreme_greed") = (sum > 100000 * n)
                /\ (s = "greed") = (sum > 50000 * n /\ sum <= 100000 * n)
                /\ (s = "neutral") = (sum > 10000 * n /\ sum <= 50000 * n)
                /\ (s = "fear") = (sum > 5000 * n /\ sum <= 10000 * n)
                /\ (s = "extreme_fear") = (sum <= 5000 * n)
                /\ sum = 100001 * n => s = "extreme_greed"
                /\ sum = 100000 * n => s = "greed"

\* eleven listed coins with a market cap: the ten largest are kept, of two
\* different market caps and a mean of exactly 100000
C12_Witness ==
    /\ calc.fn = "buildMarketSnapshot"
    /\ Len(calc.out.topGainers) = TopGainersKeep
    /\ Len(calc.in) > TopGainersKeep
    /\ calc.in[Len(calc.in)] > 0
    /\ Sum(calc.out.topGainers) = 100000 * Len(calc.out.topGainers)
    /\ calc.out.topGainers[1] # calc.out.topGainers[TopGainersKeep]
    /\ calc.out.sentiment = "greed"

\* C13: on the empty batch analyzeTradeFlow returns counts, volumes, net
\* flow, unique counts and average sizes all 0, buyPressure 50,
\* isWhaleActivity false and largestTrade 0, dividing by 1 and never by 0.
C13_EmptyBatch ==
    (calc.fn = "analyzeTradeFlow" /\ calc.in = <<>>) =>
        LET r == calc.out
        IN  /\ r.totalBuys = 0 /\ r.totalSells = 0
            /\ r.buyVolume = 0 /\ r.sellVolume = 0 /\ r.netFlow = 0
            /\ r.uniqueBuyers = 0 /\ r.uniqueSellers = 0
            /\ r.avgBuySize = Ratio(0, 1) /\ r.avgSellSize = Ratio(0, 1)
            /\ r.buyPressure = Ratio(50, 1)
            /\ r.isWhaleActivity = FALSE
            /\ r.largestTrade = 0

C13_Witness ==
    /\ calc.fn = "analyzeTradeFlow"
    /\ calc.in = <<>>
    /\ calc.out.buyPressure.num = 50

\* C14: for every batch totalBuys + totalSells is the number of trades,
\* buyVolume and sellVolume are not negative, and netFlow is buyVolume
\* minus sellVolume; no quotient has a zero divisor.
C14_TradePartition ==
    calc.fn = "analyzeTradeFlow" =>
        LET r == calc.out
        IN  /\ r.totalBuys + r.totalSells = Len(calc.in)
            /\ r.totalBuys = Cardinality({i \in 1..Len(calc.in) : calc.in[i].is_buy})
            /\ r.buyVolume >= 0
            /\ r.sellVolume >= 0
            /\ r.buyVolume + r.sellVolume = Sum(Amounts(calc.in))
            /\ r.netFlow = r.buyVolume - r.sellVolume
            /\ r.avgBuySize.den > 0 /\ r.avgSellSize.den > 0
            /\ r.buyPressure.den > 0

\* a batch of buys and sells, the sells the larger volume
C14_Witness ==
    /\ calc.fn = "analyzeTradeFlow"
    /\ Len(calc.in) = MaxTrades
    /\ calc.out.totalBuys > 0
    /\ calc.out.totalSells > 0
    /\ calc.out.netFlow < 0

\* ------------------------------------------------------------------------
\* runFullCycle and the phases it runs
\* ------------------------------------------------------------------------
\* the cycle in slot p has an error of the phase it awaited to handle
CycleFailing(p) ==
    /\ procs[p].pc = "cycle_resume"
    /\ procs[p].inner.kind = "throw"

\* C15: runFullCycle never raises to its caller: an error thrown by the
\* scan, generate, deploy or monitor it awaits ends the invocation with the
\* return of {phase: 'error', results: {error}} and an error-level log
\* entry of module 'agent'.
C15_CycleNeverRaises ==
    [][ /\ Returned("cycle") => ret'.kind = "return"
        /\ \A p \in Slots :
              CycleFailing(p) =>
                 /\ ENABLED CycleCatch(p)
                 /\ procs'[p] # procs[p] =>
                       /\ Returned("cycle")
                       /\ ret'.kind = "return"
                       /\ ret'.val.phase = "error"
                       /\ ret'.val.error = procs[p].inner.val
                       /\ procs'[p] = Idle
                       /\ Len(agentState'.logs) > 0
                       /\ agentState'.logs[1].level = "error"
                       /\ agentState'.logs[1].module = "agent"
                       /\ agentState'.logs[1].id = clock ]_vars

\* a cycle whose runGenerate threw has returned phase 'error'
C15_Witness ==
    /\ ret.op = "cycle"
    /\ ret.kind = "return"
    /\ ret.val.phase = "error"
    /\ Len(agentState.logs) > 1
    /\ agentState.logs[1].level = "error"
    /\ agentState.logs[1].module = "agent"
    /\ agentState.logs[2].level = "error"
    /\ agentState.logs[2].module = "generate"

\* the cycle in slot p has the decision of its scan to act on
CycleDeciding(p) ==
    /\ procs[p].pc = "cycle_resume"
    /\ procs[p].inner.op = "scan"
    /\ procs[p].inner.kind = "return"

\* the cycle in slot p has the result of its follow-up phase
CycleFinishing(p) ==
    /\ procs[p].pc = "cycle_resume"
    /\ procs[p].inner.op # "scan"
    /\ procs[p].inner.kind = "return"

\* the step takes slot p into runGenerate
GenerateEntered(p) ==
    /\ procs'[p].pc \in {"gen_snapshot", "gen_oracle"}
    /\ agentState'.currentMode = "generate"
    /\ agentState'.logs[1].module = "generate"
    /\ agentState'.ideas = agentState.ideas
    /\ ret' = ret

\* the step takes slot p into, and maybe through, runMonitor
MonitorEntered(p) ==
    /\ agentState'.currentMode = "monitor"
    /\ agentState'.logs[1].module = "monitor"
    /\ agentState'.ideas = agentState.ideas
    /\ \/ procs'[p].pc = "mon_snapshot" /\ ret' = ret
       \/ Returned("monitor") /\ procs'[p].pc = "cycle_resume"

\* the ids of the ideas still to deploy that no other such idea outscores
BestIdeaIds(ideas) ==
    LET cand == {i \in 1..Len(ideas) : ideas[i].status \in {"idea", "approved"}}
    IN  {ideas[i].id : i \in {k \in cand :
            \A j \in cand : ideas[k].overallScore >= ideas[j].overallScore}}

\* C16: a cycle runs scan first and then one follow-up by the decision's
\* action: 'generate' runs generate; 'deploy' deploys the idea of highest
\* overallScore among those of status idea or approved, or runs generate if
\* there is none; 'hold' and 'exit' run monitor; 'wait' runs no phase and
\* changes neither ideas nor deployedTokens; after the follow-up the cycle
\* returns.
C16_CycleFollowUp ==
    [][ \A p \in Slots :
          /\ (procs[p].pc = "idle" /\ procs'[p].cycle) =>
                procs'[p].pc = "scan_snapshot"
          /\ (CycleDeciding(p) /\ procs'[p] # procs[p]) =>
                LET action == procs[p].inner.val.decision.action
                    best   == BestIdeaIds(agentState.ideas)
                IN  CASE action = "generate" -> GenerateEntered(p)
                      [] action = "deploy" ->
                            IF best # {}
                            THEN /\ Returned("deploy")
                                 /\ ret'.arg \in best
                                 /\ procs'[p].pc = "cycle_resume"
                                 /\ procs'[p].inner = ret'
                            ELSE GenerateEntered(p)
                      [] action \in {"hold", "exit"} -> MonitorEntered(p)
                      [] OTHER ->
                            /\ Returned("cycle")
                            /\ ret'.val.phase = "wait"
                            /\ procs'[p] = Idle
                            /\ agentState'.ideas = agentState.ideas
                            /\ agentState'.deployedTokens = agentState.deployedTokens
                            /\ agentState'.currentMode = agentState.currentMode
          /\ (CycleFinishing(p) /\ procs'[p] # procs[p]) =>
                /\ Returned("cycle")
                /\ ret'.val.phase = procs[p].inner.op
                /\ procs'[p] = Idle
                /\ agentState'.ideas = agentState.ideas ]_vars

\* a cycle has deployed the better of two ideas, the one listed second
C16_Witness ==
    /\ Len(agentState.ideas) = 2
    /\ agentState.ideas[1].status = "idea"
    /\ agentState.ideas[2].status = "deploying"
    /\ agentState.ideas[2].overallScore > agentState.ideas[1].overallScore
    /\ \E p \in Slots :
          /\ procs[p].pc = "cycle_resume"
          /\ procs[p].inner.op = "deploy"
          /\ procs[p].inner.arg = agentState.ideas[2].id
          /\ procs[p].inner.val.success

\* ------------------------------------------------------------------------
\* runScan
\* ------------------------------------------------------------------------
\* what the await slot p is suspended at throws when it fails
AwaitedBy(p) ==
    CASE procs[p].pc = "scan_snapshot" -> "snapshot"
      [] procs[p].pc = "scan_oracle"   -> "oracle"
      [] OTHER -> "none"

\* C17: when the snapshot build or the market-condition oracle fails,
\* runScan records the error-level entry 'Scan failed' and then throws that
\* same error to its caller; it returns a value only when both succeeded.
C17_ScanRethrows ==
    [][ \A p \in Slots :
          (AwaitedBy(p) # "none" /\ procs'[p] # procs[p] /\ Returned("scan")) =>
             \/ /\ ret'.kind = "throw"
                /\ ret'.val = AwaitedBy(p)
                /\ Len(agentState'.logs) > 0
                /\ agentState'.logs[1].level = "error"
                /\ agentState'.logs[1].module = "scan"
                /\ agentState'.logs[1].message = "Scan failed"
                /\ agentState'.logs[1].id = clock
                /\ agentState'.lastMarketSnapshot = agentState.lastMarketSnapshot
                /\ agentState'.lastScanAt = agentState.lastScanAt
                /\ procs'[p].cycle => /\ procs'[p].pc = "cycle_resume"
                                      /\ procs'[p].inner.kind = "throw"
                /\ ~procs'[p].cycle => procs'[p] = Idle
             \/ /\ ret'.kind = "return"
                /\ procs[p].pc = "scan_oracle"
                /\ ret'.val.snapshot = procs[p].snapshot
                /\ agentState'.logs[1].level = "ai" ]_vars

\* a scan whose snapshot was captured and whose oracle call then failed
C17_Witness ==
    /\ ret.op = "scan"
    /\ ret.kind = "throw"
    /\ ret.val = "oracle"
    /\ agentState.lastMarketSnapshot # Null
    /\ Len(agentState.logs) > 1
    /\ agentState.logs[1].message = "Scan failed"
    /\ agentState.logs[2].message = "Market snapshot captured"
    /\ \A p \in Slots : procs[p] = Idle

\* ------------------------------------------------------------------------
\* The advisory oracle under every outcome of its generateText call
\* ------------------------------------------------------------------------
OracleNames ==
    {"analyzeMarketConditions", "analyzeNarrative", "evaluateToken",
     "generateTokenIdeas", "adviseExitStrategy"}

\* C18: no function of the advisory oracle raises to the orchestrator:
\* whether generateText gives a structured output, gives none or throws,
\* the function returns a value, and for analyzeMarketConditions and
\* generateTokenIdeas that value is the fallback (action wait with
\* confidence 0, the empty list) whenever there was no structured output.
C18_OracleNeverRaises ==
    calc.fn \in OracleNames =>
        /\ calc.out.kind = "return"
        /\ (calc.fn = "analyzeMarketConditions" /\ calc.in.llm.kind # "output") =>
              /\ calc.out.val.action = "wait"
              /\ calc.out.val.confidence = 0
        /\ (calc.fn = "generateTokenIdeas" /\ calc.in.llm.kind # "output") =>
              calc.out.val = <<>>

\* ------------------------------------------------------------------------
\* The command surface
\* ------------------------------------------------------------------------
\* the operation behind the last answered command failed
OperationFailed ==
    \/ ret.kind = "throw"
    \/ ret.op = "deploy" /\ ~ret.val.success
    \/ ret.op = "cycle" /\ ret.val.phase = "error"
    \/ ret.op = "cycle" /\ ret.val.phase = "deploy" /\ ~ret.val.deployResult.success

\* C19: every failure of a command's operation (a thrown error, a refused
\* deploy, a cycle ending in phase 'error' or in a refused deploy) is
\* answered with success:false and a message; success:true is answered
\* only when the operation succeeded.
C19_FailuresReported ==
    (ret.n > 0 /\ ret.response # Null) =>
        /\ ret.response.success => ~OperationFailed
        /\ ~ret.response.success =>
              \/ "error" \in DOMAIN ret.response
              \/ "message" \in DOMAIN ret.response

\* ------------------------------------------------------------------------
\* The idea list
\* ------------------------------------------------------------------------
\* idea a with the status of idea b
WithStatusOf(a, b) == [a EXCEPT !.status = b.status]

\* C20: ideas enter the list only through runGenerate, with status 'idea',
\* in front of the ideas already listed; only runDeploy changes an idea
\* already listed, and runDeploy(id) changes at most the status of the idea
\* with that id; runScan, runAnalysis, runGenerate, runMonitor, updateConfig,
\* clearLogs and getAgentState leave every listed idea as it is.  (resetAgent
\* empties the list.)
C20_IdeaFrame ==
    [][ LET old   == agentState.ideas
            new   == agentState'.ideas
            added == Len(new) - Len(old)
        IN  \/ Returned("reset") /\ new = <<>>
            \/ /\ added >= 0
               /\ \A i \in 1..Len(old) :
                     /\ WithStatusOf(new[added + i], old[i]) = old[i]
                     /\ new[added + i] # old[i] =>
                           /\ Returned("deploy")
                           /\ ret'.arg = old[i].id
                           /\ added = 0
                           /\ \A j \in 1..Len(old) : j # i => new[j] = old[j]
               /\ added > 0 =>
                     /\ Returned("generate")
                     /\ ret'.kind = "return"
                     /\ \A k \in 1..added : /\ new[k].status = "idea"
                                           /\ new[k] = ret'.val[k]
                     /\ \A k \in 1..added, i \in 1..Len(old) :
                           new[k].id # old[i].id ]_vars

\* a runGenerate has put new ideas in front of two listed ones, one of
\* which a runDeploy had set to 'deploying'
C20_Witness ==
    /\ ret.op = "generate"
    /\ ret.kind = "return"
    /\ Len(ret.val) > 0
    /\ Len(agentState.ideas) = Len(ret.val) + 2
    /\ agentState.ideas[1].status = "idea"
    /\ \E i \in 1..Len(agentState.ideas) : agentState.ideas[i].status = "deploying"

\* ------------------------------------------------------------------------
\* Concurrent runGenerate invocations, on the state one runGenerate left:
\* two ideas listed, no snapshot stored, so that each invocation awaits its
\* own snapshot and then the oracle.
\* ------------------------------------------------------------------------
GenerateOps == 3

InitGenerate ==
    /\ envWallet = ""
    /\ agentState = AfterGenerate.st
    /\ clock = AfterGenerate.clock
    /\ procs = [p \in Slots |-> Idle]
    /\ ret = NoReturn
    /\ started = 1
    /\ budget = started + GenerateOps
    /\ calc = Null

NextGenerate ==
    \/ \E p \in Slots : StartGenerate(p)
    \/ \E p \in Slots : GenerateSnapshot(p)
    \/ \E p \in Slots : GenerateOracle(p)

SpecGenerate == InitGenerate /\ [][NextGenerate]_vars

\* the ids the log reports as generated, newest first
GeneratedIds ==
    LET gen == SelectSeq(agentState.logs, LAMBDA l : l.message = "Generated")
    IN  [k \in 1..Len(gen) |-> gen[k].data[1]]

ListedIds == [i \in 1..Len(agentState.ideas) |-> agentState.ideas[i].id]

Distinct(s) == \A i, j \in 1..Len(s) : s[i] = s[j] => i = j

\* C21: under every interleaving of concurrent runGenerate invocations no
\* idea is lost: each returning invocation puts its surviving ideas, in
\* order, in front of the list as it then is, so the list holds every
\* surviving idea of every invocation exactly once, and the ideas listed
\* before stay at its end; the interleaving decides only the order of the
\* batches.
C21_NoIdeaLost ==
    /\ [](/\ Distinct(ListedIds)
          /\ {ListedIds[i] : i \in 1..Len(ListedIds)}
                = {GeneratedIds[k] : k \in 1..Len(GeneratedIds)}
          /\ Len(ListedIds) = Len(GeneratedIds)
          /\ Len(agentState.ideas) >= Len(AfterGenerate.st.ideas)
          /\ SubSeq(agentState.ideas,
                    Len(agentState.ideas) - Len(AfterGenerate.st.ideas) + 1,
                    Len(agentState.ideas)) = AfterGenerate.st.ideas)
    /\ [][ /\ (Returned("generate") /\ ret'.kind = "return") =>
                 agentState'.ideas = ret'.val \o agentState.ideas
           /\ ~(Returned("generate") /\ ret'.kind = "return") =>
                 agentState'.ideas = agentState.ideas ]_vars

\* two invocations were both started before either returned, both have
\* returned, and the ideas of both are listed in front of the two old ones
C21_Witness ==
    /\ \A p \in Slots : procs[p] = Idle
    /\ ret.n = 2
    /\ ret.op = "generate"
    /\ ret.kind = "return"
    /\ Len(ret.val) = 1
    /\ Len(agentState.ideas) = 5
    /\ \E i \in 1..(Len(agentState.logs) - 1) :
          /\ agentState.logs[i].message = "Generating token ideas"
          /\ agentState.logs[i + 1].message = "Generating token ideas"

C23_ConfigFrame ==
    [][ LET config == agentState.config
            after  == agentState'.config
        IN  /\ after # config => Returned("config") \/ Returned("reset")
            /\ Returned("reset") =>
                  after = [ maxDeployBudgetSOL |-> 5, scanIntervalMs |-> 30000,
                            minViralScore |-> 70, minOverallScore |-> 65,
                            maxConcurrentTokens |-> 3,
                            walletPublicKey |-> envWallet ]
            /\ Returned("config") =>
                  LET partial == ret'.arg
                  IN  /\ DOMAIN after = DOMAIN config \cup DOMAIN partial
                      /\ \A k \in DOMAIN partial : after[k] = partial[k]
                      /\ \A k \in DOMAIN config \ DOMAIN partial :
                            after[k] = config[k]
                      /\ agentState'.ideas = agentState.ideas
                      /\ agentState'.deployedTokens = agentState.deployedTokens
                      /\ agentState'.sessionsRun = agentState.sessionsRun
                      /\ agentState'.lastMarketSnapshot = agentState.lastMarketSnapshot
                      /\ agentState'.lastScanAt = agentState.lastScanAt
                      /\ agentState'.currentMode = agentState.currentMode
                      /\ Len(agentState'.logs) > 0
                      /\ agentState'.logs[1].module = "config"
                      /\ agentState'.logs[1].id = clock
                      /\ Len(agentState.logs) < 500 =>
                            Tail(agentState'.logs) = agentState.logs ]_vars

\* an updateConfig of the two score thresholds has kept the budget that an
\* earlier updateConfig had set to 0
C23_Witness ==
    /\ ret.op = "config"
    /\ ret.arg = [minViralScore |-> 0, minOverallScore |-> 0]
    /\ agentState.config.minViralScore = 0
    /\ agentState.config.minOverallScore = 0
    /\ agentState.config.maxDeployBudgetSOL = 0
    /\ agentState.config.maxConcurrentTokens = 3

\* ------------------------------------------------------------------------
\* The session counter
\* ------------------------------------------------------------------------
\* the step starts a runFullCycle invocation
CycleStarts ==
    \E p \in Slots : procs[p].pc = "idle" /\ procs'[p].op = "cycle"

\* the log still holds everything written since startup or the last reset
LogSinceReset ==
    /\ Len(agentState.logs) > 0
    /\ LET oldest == agentState.logs[Len(agentState.logs)]
       IN  oldest.id = 1 \/ oldest.message = "Agent state reset to defaults"

CyclesLogged ==
    Cardinality({i \in 1..Len(agentState.logs) :
        agentState.logs[i].message = "=== Starting Full ClawDev Cycle ==="})

\* C24: sessionsRun goes up by exactly one at the start of every
\* runFullCycle invocation, whatever phase the invocation ends in, is set to
\* 0 by resetAgent and is changed by nothing else; it equals the number of
\* invocations started since the last reset.
C24_SessionsCounted ==
    /\ [](LogSinceReset => agentState.sessionsRun = CyclesLogged)
    /\ [][ /\ CycleStarts => agentState'.sessionsRun = agentState.sessionsRun + 1
           /\ Returned("reset") => agentState'.sessionsRun = 0
           /\ ~(CycleStarts \/ Returned("reset")) =>
                 agentState'.sessionsRun = agentState.sessionsRun
           /\ Returned("cycle") =>
                 agentState'.sessionsRun = agentState.sessionsRun ]_vars

\* two invocations were started, one has ended in phase 'error' while the
\* other is still running, and both are counted
C24_Witness ==
    /\ agentState.sessionsRun = 2
    /\ ret.op = "cycle"
    /\ ret.val.phase = "error"
    /\ \E p \in Slots : procs[p].op = "cycle" /\ procs[p].pc # "idle"

\* ------------------------------------------------------------------------
\* The mode label
\* ------------------------------------------------------------------------
\* the first log message of each phase
PhaseEntries ==
    {"Starting market scan...", "Starting deep analysis...",
     "Generating token ideas", "Preparing to deploy idea",
     "Monitoring active positions..."}

\* the positions of the phase entries in a log, newest first
Entries(logs) == {i \in 1..Len(logs) : logs[i].message \in PhaseEntries}

Newest(s) == CHOOSE i \in s : \A j \in s : i <= j

\* the phase entries a step has added to the log
NewEntries == {i \in Entries(agentState'.logs) : agentState'.logs[i].id >= clock}

\* C25: currentMode is only a label: every phase can be started in any
\* mode, and on entry sets currentMode to its own label, so currentMode is
\* always the label of the phase started last ('scan' at startup and after
\* a reset), whether or not that phase fails later or a phase started
\* earlier finishes after it.
C25_ModeIsLabel ==
    /\ [](/\ Entries(agentState.logs) # {} =>
                agentState.currentMode =
                    agentState.logs[Newest(Entries(agentState.logs))].module
          /\ (Entries(agentState.logs) = {} /\ LogSinceReset) =>
                agentState.currentMode = "scan"
          /\ started < budget =>
                /\ ENABLED RunDeploy
                /\ \A p \in Slots :
                      (procs[p].pc = "idle"
                          /\ \A q \in Slots : q < p => procs[q].pc # "idle") =>
                         /\ ENABLED StartScan(p)
                         /\ ENABLED StartAnalysis(p)
                         /\ ENABLED StartGenerate(p)
                         /\ ENABLED StartMonitor(p))
    /\ [][ /\ NewEntries # {} =>
                 agentState'.currentMode =
                     agentState'.logs[Newest(NewEntries)].module
           /\ Returned("reset") => agentState'.currentMode = "scan"
           /\ (NewEntries = {} /\ ~Returned("reset")) =>
                 agentState'.currentMode = agentState.currentMode ]_vars

\* a scan started first has failed after a runGenerate was started: the
\* mode is still that of the runGenerate, which is still running
C25_Witness ==
    /\ ret.op = "scan"
    /\ ret.kind = "throw"
    /\ agentState.currentMode = "generate"
    /\ \E p \in Slots : procs[p].op = "generate" /\ procs[p].pc # "idle"

\* ------------------------------------------------------------------------
\* The stored snapshot
\* ------------------------------------------------------------------------
\* slot p is awaiting the snapshot that runAnalysis, runGenerate or
\* runMonitor builds when none is stored
BuildsOwnSnapshot(p) == procs[p].pc \in {"an_snapshot", "gen_snapshot", "mon_snapshot"}

\* C26: lastScanAt is null exactly when lastMarketSnapshot is null; the two
\* are set, together, only by a runScan whose snapshot build succeeded, and
\* stay set if that scan's oracle call then fails; the snapshot that
\* runAnalysis, runGenerate or runMonitor builds for itself is never written
\* to the state.
C26_SnapshotAndScanTime ==
    /\ []((agentState.lastScanAt = Null) = (agentState.lastMarketSnapshot = Null))
    /\ [][ /\ (\/ agentState'.lastMarketSnapshot # agentState.lastMarketSnapshot
               \/ agentState'.lastScanAt # agentState.lastScanAt) =>
                 \/ /\ Returned("reset")
                    /\ agentState'.lastMarketSnapshot = Null
                    /\ agentState'.lastScanAt = Null
                 \/ \E p \in Slots :
                       /\ procs[p].pc = "scan_snapshot"
                       /\ procs'[p].pc = "scan_oracle"
                       /\ agentState'.lastMarketSnapshot = procs'[p].snapshot
                       /\ agentState'.lastMarketSnapshot # Null
                       /\ agentState'.lastScanAt = [at |-> clock]
           /\ \A p \in Slots :
                 (procs[p].pc = "scan_snapshot" /\ procs'[p].pc = "scan_oracle") =>
                     agentState'.lastMarketSnapshot = procs'[p].snapshot
           /\ \A p \in Slots :
                 ((BuildsOwnSnapshot(p) \/ procs[p].pc = "scan_oracle")
                     /\ procs'[p] # procs[p]) =>
                    /\ agentState'.lastMarketSnapshot = agentState.lastMarketSnapshot
                    /\ agentState'.lastScanAt = agentState.lastScanAt ]_vars

\* a runGenerate holds the snapshot it built for itself while the state
\* stores none, the snapshot build of a scan having failed
C26_Witness ==
    /\ agentState.lastMarketSnapshot = Null
    /\ agentState.lastScanAt = Null
    /\ ret.op = "scan"
    /\ ret.kind = "throw"
    /\ ret.val = "snapshot"
    /\ \E p \in Slots :
          /\ procs[p].op = "generate"
          /\ procs[p].pc = "gen_oracle"
          /\ procs[p].snapshot # Null

\* ------------------------------------------------------------------------
\* The life of a listed idea
\* ------------------------------------------------------------------------
\* the idea at position i is still listed after the step, with a status it
\* may have moved to
StaysListed(i) ==
    \E j \in 1..Len(agentState'.ideas) :
        /\ agentState'.ideas[j].id = agentState.ideas[i].id
        /\ \/ agentState'.ideas[j] = agentState.ideas[i]
           \/ agentState'.ideas[j] = [agentState.ideas[i] EXCEPT !.status = "deploying"]

\* C27: every listed idea has status 'idea' or 'deploying' ('rejected' is
\* never reached), no idea returns from 'deploying' to 'idea', and an idea
\* leaves the list only when resetAgent empties it.
C27_IdeaStatuses ==
    /\ [](\A i \in 1..Len(agentState.ideas) :
             agentState.ideas[i].status \in {"idea", "deploying"})
    /\ [][ \/ \A i \in 1..Len(agentState.ideas) : StaysListed(i)
           \/ Returned("reset") /\ agentState'.ideas = <<>> ]_vars

\* a deploy command names an idea that is already 'deploying' and succeeds,
\* next to an idea not deployed yet
C27_Witness ==
    /\ ret.op = "deploy"
    /\ ret.kind = "return"
    /\ ret.val.success
    /\ ret.val.idea.status = "deploying"
    /\ \E i, j \in 1..Len(agentState.ideas) :
          /\ agentState.ideas[i].id = ret.arg
          /\ agentState.ideas[i].status = "deploying"
          /\ agentState.ideas[j].status = "idea"
    /\ \E k, l \in 1..Len(agentState.logs) :
          /\ k < l
          /\ agentState.logs[k].message = "ready for deployment"
          /\ agentState.logs[l].message = "ready for deployment"
          /\ agentState.logs[k].data = <<ret.arg>>
          /\ agentState.logs[l].data = <<ret.arg>>

\* ------------------------------------------------------------------------
\* Deploys made by runFullCycle only: the agent holding two ideas, every
\* command but the direct deploy, cycles running concurrently.
\* ------------------------------------------------------------------------
NextCycleOnly ==
    \/ BadRequest
    \/ GetAgentState
    \/ UpdateConfig
    \/ ClearLogs
    \/ ResetAgent
    \/ \E p \in Slots : StartScan(p)
    \/ \E p \in Slots : StartAnalysis(p)
    \/ \E p \in Slots : StartGenerate(p)
    \/ \E p \in Slots : StartMonitor(p)
    \/ \E p \in Slots : StartFullCycle(p)
    \/ \E p \in Slots : ScanSnapshot(p)
    \/ \E p \in Slots : ScanOracle(p)
    \/ \E p \in Slots : AnalysisSnapshot(p)
    \/ \E p \in Slots : AnalysisNarrative(p)
    \/ \E p \in Slots : AnalysisFetch(p)
    \/ \E p \in Slots : AnalysisEval(p)
    \/ \E p \in Slots : GenerateSnapshot(p)
    \/ \E p \in Slots : GenerateOracle(p)
    \/ \E p \in Slots : MonitorSnapshot(p)
    \/ \E p \in Slots : CycleSwitch(p)
    \/ \E p \in Slots : CycleAfterGenerate(p)
    \/ \E p \in Slots : CycleAfterDeploy(p)
    \/ \E p \in Slots : CycleAfterMonitor(p)
    \/ \E p \in Slots : CycleCatch(p)

SpecCycleOnly == InitCycle /\ [][NextCycleOnly]_vars

\* the log entries of successful deploys
ReadyLogs == {k \in 1..Len(agentState.logs) :
                 agentState.logs[k].message = "ready for deployment"}

\* C28: when deploys come from runFullCycle only, no idea is deployed
\* successfully twice, however the cycles interleave: the cycle selects the
\* best idea of status idea/approved and flips it to 'deploying' in one step,
\* and an idea in status 'deploying' is not selected again.
C28_DeployedOnce ==
    /\ [](\A k, l \in ReadyLogs :
             agentState.logs[k].data = agentState.logs[l].data => k = l)
    /\ [][ (Returned("deploy") /\ ret'.val.success) =>
              \E p \in Slots :
                 /\ Resumes(p, "scan", "return")
                 /\ TopIdea(agentState.ideas) # 0
                 /\ LET i == TopIdea(agentState.ideas)
                    IN  /\ agentState.ideas[i].id = ret'.arg
                        /\ agentState.ideas[i].status \in {"idea", "approved"}
                        /\ agentState'.ideas[i].status = "deploying"
                        /\ ret'.val.idea = agentState'.ideas[i] ]_vars

\* two concurrent cycles have deployed the two ideas, one each: the second
\* to decide passed over the better idea, already 'deploying'
C28_Witness ==
    /\ Len(agentState.ideas) = 2
    /\ \A i \in 1..2 : agentState.ideas[i].status = "deploying"
    /\ \A i \in 1..2 : \E k \in ReadyLogs :
                          agentState.logs[k].data = <<agentState.ideas[i].id>>
    /\ agentState.sessionsRun = 2
    /\ ret.op = "cycle"
    /\ ret.val.phase = "deploy"
    /\ ret.val.deployResult.success
    /\ ret.val.deployResult.idea.overallScore < agentState.ideas[2].overallScore
    /\ \E p \in Slots : procs[p].pc = "cycle_resume" /\ procs[p].inner.op = "deploy"

\* ------------------------------------------------------------------------
\* resetAgent and the phases in flight
\* ------------------------------------------------------------------------
\* the log holds everything written since the last reset, and no runScan
\* or runGenerate has been entered since
NothingStartedSinceReset ==
    /\ Len(agentState.logs) > 0
    /\ agentState.logs[Len(agentState.logs)].message = "Agent state reset to defaults"
    /\ \A k \in 1..Len(agentState.logs) :
          agentState.logs[k].message \notin
              {"Starting market scan...", "Generating token ideas"}

\* the step with which the phase suspended in slot p resumes is possible
CanResume(p) ==
    CASE procs[p].pc = "scan_snapshot" -> ENABLED ScanSnapshot(p)
      [] procs[p].pc = "scan_oracle"   -> ENABLED ScanOracle(p)
      [] procs[p].pc = "gen_snapshot"  -> ENABLED GenerateSnapshot(p)
      [] procs[p].pc = "gen_oracle"    -> ENABLED GenerateOracle(p)
      [] OTHER -> TRUE

\* C29: resetAgent neither cancels nor fences the phases in flight: they stay
\* suspended across the reset, can always resume, and a resuming runScan or
\* runGenerate writes its snapshot or its ideas into the state it finds, the
\* fresh state after a reset included.
C29_ResetDoesNotFence ==
    /\ [](\A p \in Slots : CanResume(p))
    /\ [][ /\ Returned("reset") => procs' = procs
           /\ \A p \in Slots :
                 (procs[p].pc = "scan_snapshot" /\ procs'[p].pc = "scan_oracle") =>
                     /\ agentState'.lastMarketSnapshot = procs'[p].snapshot
                     /\ agentState'.lastMarketSnapshot # Null
           /\ \A p \in Slots :
                 (procs[p].pc = "gen_oracle" /\ procs'[p] # procs[p]
                      /\ ret'.kind = "return") =>
                     agentState'.ideas = ret'.val \o agentState.ideas ]_vars

\* after a reset, with no runGenerate entered since, a runGenerate entered
\* before the reset has returned and its ideas are listed
C29_Witness ==
    /\ NothingStartedSinceReset
    /\ agentState.ideas # <<>>
    /\ ret.op = "generate"
    /\ ret.kind = "return"
    /\ agentState.ideas = ret.val
    /\ agentState.sessionsRun = 0

\* ------------------------------------------------------------------------
\* The concurrency cap: the agent holding two ideas, with the commands that
\* write or read what the cap gate and runMonitor look at.
\* ------------------------------------------------------------------------
CapOps == 3

InitCap ==
    /\ envWallet = "W"
    /\ agentState = TwoIdeas.st
    /\ clock = TwoIdeas.clock
    /\ procs = [p \in Slots |-> Idle]
    /\ ret = NoReturn
    /\ started = 2
    /\ budget = started + CapOps
    /\ calc = Null

NextCap ==
    \/ UpdateConfig
    \/ RunDeploy
    \/ \E p \in Slots : StartScan(p)
    \/ \E p \in Slots : ScanSnapshot(p)
    \/ \E p \in Slots : ScanOracle(p)
    \/ \E p \in Slots : StartMonitor(p)
    \/ \E p \in Slots : MonitorSnapshot(p)

SpecCap == InitCap /\ [][NextCap]_vars

\* the deploy reaches the cap gate: its idea is listed, the wallet key is
\* set and the budget is positive
ReachesCapGate(st, ideaId) ==
    /\ ideaId \in IdeaIds(st)
    /\ st.config.walletPublicKey # ""
    /\ st.config.maxDeployBudgetSOL > 0

Deploying(st) == {i \in 1..Len(st.ideas) : st.ideas[i].status = "deploying"}

\* C30: no deployed token being active, the cap gate of runDeploy refuses
\* exactly when config.maxConcurrentTokens <= 0; with a positive cap every
\* listed idea can be deployed however many are in deployment already; and
\* runMonitor returns an empty list of positions.
C30_CapNeverBinds ==
    /\ [](/\ Len(ActiveTokens(agentState)) = 0
          /\ \A ideaId \in IdeaIds(agentState) :
                (ReachesCapGate(agentState, ideaId)
                     /\ agentState.config.maxConcurrentTokens > 0) =>
                    runDeploy(World, ideaId).result.success)
    /\ [][ /\ (Returned("deploy") /\ ReachesCapGate(agentState, ret'.arg)) =>
                /\ ~ret'.val.success = (agentState.config.maxConcurrentTokens <= 0)
                /\ ~ret'.val.success =>
                      ret'.val.message = "Max concurrent tokens reached"
           /\ (Returned("monitor") /\ ret'.kind = "return") =>
                ret'.val.positions = <<>> ]_vars

\* with a cap of 1, a second idea has been moved to 'deploying'
C30_Witness ==
    /\ agentState.config.maxConcurrentTokens = 1
    /\ Cardinality(Deploying(agentState)) = 2
    /\ ret.op = "deploy"
    /\ ret.val.success

====
